---- MODULE Spec2Model ----
(***************************************************************************)
(* Model of handy-keys: the canonical event normalizer (Linux backend,     *)
(* src/platform/linux/listener.rs), the shared listener state              *)
(* (src/platform/state.rs) and the hotkey match engine (src/manager.rs).   *)
(*                                                                         *)
(* Spec is the manager on the Linux callback. SpecReplay and SpecOrder add  *)
(* histories to it, SpecWindows takes the Windows hooks as event source,   *)
(* SpecShutdown adds the drop of the manager, SpecLocks follows every path *)
(* mutex by mutex, SpecCalls runs single calls of should_block and spawn,  *)
(* SpecExtra has a modifier that no hotkey contains, SpecBackends takes     *)
(* each of the three native backends as event source, SpecSides has the    *)
(* left and the right key of a modifier and the history of the keys that   *)
(* are down, SpecTypes runs single calls of the types module (src/types).  *)
(*                                                                         *)
(* Modifiers (a bitflags u32 in the source) are modelled as the set of     *)
(* the names of the bits that are set; `==`, `contains`, `|` and `& !`     *)
(* become set equality, \subseteq, \cup and \ .                            *)
(***************************************************************************)
EXTENDS Integers, Sequences, FiniteSets, TLC

\* ------------------------------------------------------------------ bounds
\* register is not offered once next_id has reached MaxIds
MaxIds == 2
\* the native callback is not offered while MaxQueue canonical events wait
MaxQueue == 1
\* where the order of the events is recorded: the native callback is not
\* offered while MaxOrderQueue canonical events wait, nor once MaxEvents
\* canonical events have been sent
MaxOrderQueue == 2
MaxEvents == 4

\* the texts Hotkey::from_str is called on have at most MaxTokens tokens
MaxTokens == 3

\* ------------------------------------------------------------------- types
\* Option<Key>::None; Some(k) is the key name k
None == "None"

\* Option<Modifiers>: None is the empty tuple, Some(m) the one-element tuple
NoModifier == << >>
SomeModifier(m) == <<m>>

\* Option<Hotkey>, encoded the same way
NoHotkey == << >>
SomeHotkey(h) == <<h>>

\* Option<BlockingHotkeys>: None for KeyboardListener::new, Some(set) for
\* new_with_blocking; the set is the value the mutex guards
NoBlocking == << >>
SomeBlocking(set) == <<set>>

\* Modifiers::empty()
empty == {}

\* the modifier bits of the keys rdev_key_to_modifier maps below
CMD == "CMD"
SHIFT == "SHIFT"
CTRL == "CTRL"

\* Hotkey { modifiers, key }
Hotkey(m, k) == [modifiers |-> m, key |-> k]

\* a KeyEvent that is always a key-up (mutant)
KeyEvent_up(m, k, d, c) ==
    [modifiers |-> m, key |-> k, is_key_down |-> FALSE, changed_modifier |-> c]

\* KeyEvent { modifiers, key, is_key_down, changed_modifier }
KeyEvent(m, k, d, c) ==
    [modifiers |-> m, key |-> k, is_key_down |-> d, changed_modifier |-> c]

\* HotkeyEvent { id, state }
HotkeyEvent(i, s) == [id |-> i, state |-> s]

\* HotkeyState
Pressed == "Pressed"
Released == "Released"

\* the hotkey definitions callers register in this model
HotkeyPool ==
    { Hotkey({CMD}, "K"), Hotkey({SHIFT}, "K"), Hotkey(empty, "F1"),
      Hotkey({CMD, SHIFT}, None) }

\* the rdev keys the native source delivers in this model
NativeKeys == {"MetaLeft", "ShiftLeft", "ShiftRight", "KeyK", "F1"}

\* all orderings of a finite set, as sequences without repetition
RECURSIVE Orderings(_)
Orderings(S) ==
    IF S = {} THEN { <<>> }
    ELSE UNION { { <<x>> \o t : t \in Orderings(S \ {x}) } : x \in S }

Range(f) == { f[x] : x \in DOMAIN f }

\* --------------------------------------------- platform/linux/keycode.rs
rdev_key_to_key(key) ==
    CASE key = "KeyK" -> "K"
      [] key = "F1" -> "F1"
      [] OTHER -> None

rdev_key_to_modifier(key) ==
    CASE key \in {"ShiftLeft", "ShiftRight"} -> SomeModifier({SHIFT})
      [] key \in {"ControlLeft", "ControlRight"} -> SomeModifier({CTRL})
      [] key \in {"MetaLeft", "MetaRight"} -> SomeModifier({CMD})
      [] OTHER -> NoModifier

\* update_modifiers flipping the bit on a key-down (mutant)
update_modifiers_toggle(current, key, pressed) ==
    IF rdev_key_to_modifier(key) = NoModifier THEN current
    ELSE IF pressed /\ ~(rdev_key_to_modifier(key)[1] \subseteq current)
    THEN current \cup rdev_key_to_modifier(key)[1]
    ELSE current \ rdev_key_to_modifier(key)[1]

update_modifiers(current, key, pressed) ==
    IF rdev_key_to_modifier(key) = NoModifier THEN current
    ELSE IF pressed THEN current \cup rdev_key_to_modifier(key)[1]
    ELSE current \ rdev_key_to_modifier(key)[1]

\* ----------------------------------------------------------------- state
VARIABLES
    hotkeys,            \* ManagerState.hotkeys: HotkeyId -> Hotkey
    next_id,            \* ManagerState.next_id
    pressed_hotkeys,    \* ManagerState.pressed_hotkeys
    blocking_hotkeys,   \* the shared BlockingHotkeys set
    current_modifiers,  \* ListenerState.current_modifiers
    key_events,         \* the mpsc channel listener -> worker, oldest first
    last,               \* the last call made and what it returned
    last_state,         \* per id, the state the HotkeyEvents sent so far leave
                        \* it in: Released until the first event is sent
    issued,             \* history: the ids register has returned so far
    running,            \* HotkeyManager.running: cleared by its drop
    listener_running,   \* KeyboardListener.running: cleared by its drop
    worker,             \* the worker thread: "recv" in recv_timeout, "exiting"
                        \* once it has left the loop, "exited" when it is gone
    joined,             \* handle.join() in the drop of the manager has returned
    call,               \* a single call of a function: its arguments and,
                        \* once it has run, what it returned
    pc,                 \* per thread, where it is on its path, with the
                        \* arguments of the call or notification it serves
    holding,            \* per thread, the mutexes it holds, oldest first
    observing,          \* which of the histories below are being recorded
    native,             \* the platform the listener was built for and what
                        \* its OS knows of the keyboard
    down_block,         \* history, per key: "up", or what the callback
                        \* answered for its last key-down, "blocked" / "passed"
    held_keys,          \* history: the native keys that are physically down
    next_seq,           \* history: how many canonical events were sent; the
                        \* n-th one sent has serial number n
    key_seq,            \* history: the serial numbers of the events in key_events
    done_seq,           \* history: serial number of the event processed last
    hotkey_events,      \* the mpsc channel worker -> caller, oldest first, each
                        \* HotkeyEvent with the serial number of its cause
    recv_seq            \* history: the cause of the HotkeyEvent received last

\* the flags and threads of start and shutdown
lifecycle == <<running, listener_running, worker, joined>>

\* the state of the manager, its listener and what was observed of them
system == <<hotkeys, next_id, pressed_hotkeys, blocking_hotkeys,
            current_modifiers, key_events, last, last_state, issued, lifecycle>>

\* the variables the actions of the manager and the listener leave alone
aside == <<call, pc, holding>>

\* the histories a specification may switch on
order == <<next_seq, key_seq, done_seq, hotkey_events, recv_seq>>
trace == <<observing, native, down_block, held_keys, order>>

vars == <<system, aside, trace>>

\* ------------------------------------------------- platform/state.rs
\* should_block matching a hotkey whose modifiers the arguments contain
should_block_superset(blocking, modifiers, key) ==
    /\ blocking # NoBlocking
    /\ \E h \in blocking[1] : h.modifiers \subseteq modifiers /\ h.key = key

\* ListenerState::should_block
should_block(blocking, modifiers, key) ==
    IF blocking # NoBlocking
    THEN Hotkey(modifiers, key) \in blocking[1]
    ELSE FALSE

\* ------------------------------------------ platform/windows/listener.rs
\* should_block_hotkey
should_block_hotkey(blocking, modifiers, key) ==
    IF blocking # NoBlocking
    THEN Hotkey(modifiers, key) \in blocking[1]
    ELSE FALSE

\* ------------------------------------------------------------ manager.rs
\* to_press without the check of the pressed set
to_press_repeat(hk, pressed, event) ==
    { id \in DOMAIN hk :
        /\ hk[id].modifiers = event.modifiers
        /\ hk[id].key = event.key }

\* to_press matching by containment of the modifiers
to_press_contains(hk, pressed, event) ==
    { id \in DOMAIN hk :
        /\ hk[id].modifiers \subseteq event.modifiers
        /\ hk[id].key = event.key
        /\ id \notin pressed }

\* to_press that wants a key in the event
to_press_keyed(hk, pressed, event) ==
    { id \in DOMAIN hk :
        /\ event.key # None
        /\ hk[id].modifiers = event.modifiers
        /\ hk[id].key = event.key
        /\ id \notin pressed }

\* to_press comparing the modifiers and not the key
to_press_modifiers(hk, pressed, event) ==
    { id \in DOMAIN hk :
        /\ id \notin pressed
        /\ hk[id].modifiers = event.modifiers }

\* the ids process_event collects on a key-down event
to_press(hk, pressed, event) ==
    { id \in DOMAIN hk :
        /\ hk[id].modifiers = event.modifiers
        /\ hk[id].key = event.key
        /\ id \notin pressed }

\* to_release without the check of the pressed set
to_release_unpressed(hk, pressed, event) ==
    { id \in DOMAIN hk :
        \/ hk[id].key = event.key
        \/ (event.key = None /\ ~(hk[id].modifiers \subseteq event.modifiers)) }

\* to_release that wants the modifiers of the event to equal the hotkey's
to_release_exact(hk, pressed, event) ==
    { id \in DOMAIN hk :
        /\ id \in pressed
        /\ \/ (hk[id].key = event.key /\ hk[id].modifiers = event.modifiers)
           \/ (event.key = None /\ ~(hk[id].modifiers \subseteq event.modifiers)) }

\* to_release without the modifier-lift alternative
to_release_key_only(hk, pressed, event) ==
    { id \in DOMAIN hk : id \in pressed /\ hk[id].key = event.key }

\* to_release taking every key-None event for a lifted modifier (mutant)
to_release_any_lift(hk, pressed, event) ==
    { id \in DOMAIN hk :
        /\ id \in pressed
        /\ \/ hk[id].key = event.key
           \/ event.key = None }

\* a release rule that walks the pressed set: an id left there without a
\* table entry is released by any key-up event
to_release_stale(hk, pressed, event) ==
    { id \in pressed :
        \/ id \notin DOMAIN hk
        \/ hk[id].key = event.key
        \/ (event.key = None /\ ~(hk[id].modifiers \subseteq event.modifiers)) }

\* a release rule that also collects, on the release of a modifier, the
\* pressed ids whose hotkey is gone from the table
to_release_orphans(hk, pressed, event) ==
    { id \in DOMAIN hk :
        /\ id \in pressed
        /\ \/ hk[id].key = event.key
           \/ (event.key = None /\ ~(hk[id].modifiers \subseteq event.modifiers)) }
      \cup { id \in pressed : id \notin DOMAIN hk /\ event.key = None }

\* a release rule that knows the loss of a modifier only
to_release_lift_only(hk, pressed, event) ==
    { id \in DOMAIN hk :
        /\ id \in pressed
        /\ event.key = None
        /\ ~(hk[id].modifiers \subseteq event.modifiers) }

\* the ids process_event collects on a key-up event
to_release(hk, pressed, event) ==
    { id \in DOMAIN hk :
        /\ id \in pressed
        /\ \/ hk[id].key = event.key
           \/ (event.key = None /\ ~(hk[id].modifiers \subseteq event.modifiers)) }

\* process_event applying the release rule to events of either direction
process_event_pressed_both(hk, pressed, event) ==
    IF event.is_key_down
    THEN (pressed \ to_release(hk, pressed, event)) \cup to_press(hk, pressed, event)
    ELSE pressed \ to_release(hk, pressed, event)

\* the pressed set process_event leaves behind
process_event_pressed(hk, pressed, event) ==
    IF event.is_key_down
    THEN pressed \cup to_press(hk, pressed, event)
    ELSE pressed \ to_release(hk, pressed, event)

\* the Vecs process_event may return: the HashMap is iterated in any order
process_event_results(hk, pressed, event) ==
    IF event.is_key_down
    THEN { [i \in DOMAIN s |-> HotkeyEvent(s[i], Pressed)] :
             s \in Orderings(to_press(hk, pressed, event)) }
    ELSE { [i \in DOMAIN s |-> HotkeyEvent(s[i], Released)] :
             s \in Orderings(to_release(hk, pressed, event)) }

\* register without the search for an equal hotkey
never_registered(hk, hotkey) == FALSE

\* is an equal hotkey already in the table (the loop of register)
already_registered(hk, hotkey) == \E id \in DOMAIN hk : hk[id] = hotkey

\* HotkeyManager::new: an empty table, an empty Blocking Set handed to
\* KeyboardListener::new_with_blocking, nothing sent yet
HotkeyManager_new ==
    /\ hotkeys = << >>
    /\ next_id = 0
    /\ pressed_hotkeys = {}
    /\ blocking_hotkeys = {}
    /\ current_modifiers = empty
    /\ key_events = << >>
    /\ last = [op |-> "new"]
    /\ last_state = [id \in 0..(MaxIds - 1) |-> Released]
    /\ issued = {}
    /\ running = TRUE
    /\ listener_running = TRUE
    /\ worker = "recv"
    /\ joined = FALSE

\* no function call is being looked at
NoCall == [fn |-> "none"]

\* the native side is not looked at
NoNative == [target_os |-> "any"]

\* the caller of the manager, its worker and the native callback
Threads == {"caller", "worker", "callback"}

\* every thread is between two operations and holds no mutex
Unlocked ==
    /\ pc = [t \in Threads |-> [at |-> IF t = "worker" THEN "recv" ELSE "idle"]]
    /\ holding = [t \in Threads |-> << >>]

\* the keys the native source delivers, as canonical keys
TrackedKeys == { rdev_key_to_key(k) : k \in NativeKeys } \ {None}

\* nothing has been recorded
NoTrace ==
    /\ down_block = [k \in TrackedKeys |-> "up"]
    /\ held_keys = {}
    /\ next_seq = 0
    /\ key_seq = << >>
    /\ done_seq = 0
    /\ hotkey_events = << >>
    /\ recv_seq = 0

\* how many canonical events may wait in the channel of the model
queue_bound == IF "order" \in observing THEN MaxOrderQueue ELSE MaxQueue

\* the native callback is offered
may_deliver ==
    /\ Len(key_events) < queue_bound
    /\ "order" \in observing => next_seq < MaxEvents

\* the order histories after a native notification: a canonical event that
\* was sent gets the next serial number
order_sent(sent) ==
    /\ next_seq' = IF "order" \in observing /\ sent THEN next_seq + 1 ELSE next_seq
    /\ key_seq' = IF "order" \in observing /\ sent
                  THEN Append(key_seq, next_seq + 1)
                  ELSE key_seq
    /\ UNCHANGED <<done_seq, hotkey_events, recv_seq>>

\* the worker's receive taking the newest waiting item
recv_newest(queue) ==
    [item |-> queue[Len(queue)], rest |-> SubSeq(queue, 1, Len(queue) - 1)]

\* Receiver::recv / recv_timeout on a channel that is not empty: the oldest
\* item, and what stays in the channel
recv(queue) == [item |-> Head(queue), rest |-> Tail(queue)]

Init ==
    /\ HotkeyManager_new
    /\ call = NoCall
    /\ Unlocked
    /\ observing = {}
    /\ native = NoNative
    /\ NoTrace

\* the id field of what a failed register returned: there is none
NoId == -1

\* register handing out the smallest id that is not in the table
register_id_reuse(hk, next) ==
    CHOOSE n \in 0..next : n \notin DOMAIN hk /\ \A m \in 0..(n - 1) : m \in DOMAIN hk

\* the id register hands out: HotkeyId(state.next_id)
register_id(hk, next) == next

\* register that leaves the Blocking Set as it is
register_blocking_skip(set, hotkey) == set

\* the Blocking Set after a successful register: blocking.insert(hotkey)
register_blocking(set, hotkey) == set \cup {hotkey}

\* HotkeyManager::register
Register(hotkey) ==
    /\ running
    /\ next_id < MaxIds
    /\ IF already_registered(hotkeys, hotkey)
       THEN /\ last' = [op |-> "register", hotkey |-> hotkey, ok |-> FALSE,
                        err |-> "HotkeyAlreadyRegistered", id |-> NoId]
            /\ UNCHANGED <<hotkeys, next_id, blocking_hotkeys, issued>>
       ELSE /\ hotkeys' = (register_id(hotkeys, next_id) :> hotkey) @@ hotkeys
            /\ next_id' = next_id + 1
            /\ blocking_hotkeys' = register_blocking(blocking_hotkeys, hotkey)
            /\ issued' = issued \cup {register_id(hotkeys, next_id)}
            /\ last' = [op |-> "register", hotkey |-> hotkey, ok |-> TRUE,
                        err |-> None, id |-> register_id(hotkeys, next_id)]
    /\ UNCHANGED <<pressed_hotkeys, current_modifiers, key_events, last_state>>
    /\ UNCHANGED <<lifecycle, aside, trace>>

\* unregister that reports success for an id it did not find
unregister_result_ok(hk, id) == [ok |-> TRUE, err |-> None]

\* what unregister returns: Err(HotkeyNotFound) when remove(&id) found nothing
unregister_result(hk, id) ==
    IF id \notin DOMAIN hk
    THEN [ok |-> FALSE, err |-> "HotkeyNotFound"]
    ELSE [ok |-> TRUE, err |-> None]

\* the table after state.hotkeys.remove(&id)
unregister_hotkeys(hk, id) == [i \in DOMAIN hk \ {id} |-> hk[i]]

\* unregister emptying the Blocking Set
unregister_blocking_clear(set, hk, id) ==
    IF id \in DOMAIN hk THEN {} ELSE set

\* the Blocking Set after unregister: the removed hotkey, if any, is taken out
unregister_blocking(set, hk, id) ==
    IF id \in DOMAIN hk THEN set \ {hk[id]} ELSE set

\* HotkeyManager::unregister
Unregister(id) ==
    /\ running
    /\ hotkeys' = unregister_hotkeys(hotkeys, id)
    /\ blocking_hotkeys' = unregister_blocking(blocking_hotkeys, hotkeys, id)
    /\ last' = [op |-> "unregister", id |-> id,
                ok |-> unregister_result(hotkeys, id).ok,
                err |-> unregister_result(hotkeys, id).err]
    /\ UNCHANGED <<next_id, pressed_hotkeys, current_modifiers, key_events,
                   last_state, issued>>
    /\ UNCHANGED <<lifecycle, aside, trace>>

\* HotkeyManager::get_hotkey: state.hotkeys.get(&id).copied()
get_hotkey(hk, id) == IF id \in DOMAIN hk THEN SomeHotkey(hk[id]) ELSE NoHotkey

\* a callback that never looks at the running flag (mutant)
stops_processing_never(flag) == FALSE

\* the check the grab callback starts with: `!thread_running.load(..)`
stops_processing(flag) == ~flag

\* the rdev grab callback on EventType::KeyPress(rdev_key)
KeyPress(rdev_key) ==
    /\ ~stops_processing(listener_running)
    /\ may_deliver
    /\ IF rdev_key_to_modifier(rdev_key) # NoModifier
       THEN /\ current_modifiers' = update_modifiers(current_modifiers, rdev_key, TRUE)
            /\ IF current_modifiers' # current_modifiers
               THEN /\ key_events' = Append(key_events,
                          KeyEvent(current_modifiers', None, TRUE,
                                   rdev_key_to_modifier(rdev_key)))
                    /\ last' = [op |-> "native", sent |-> TRUE,
                                block |-> should_block(SomeBlocking(blocking_hotkeys),
                                                       current_modifiers', None)]
               ELSE /\ UNCHANGED key_events
                    /\ last' = [op |-> "native", sent |-> FALSE, block |-> FALSE]
       ELSE IF rdev_key_to_key(rdev_key) # None
       THEN /\ key_events' = Append(key_events,
                  KeyEvent(current_modifiers, rdev_key_to_key(rdev_key), TRUE, NoModifier))
            /\ last' = [op |-> "native", sent |-> TRUE,
                        block |-> should_block(SomeBlocking(blocking_hotkeys), current_modifiers,
                                               rdev_key_to_key(rdev_key))]
            /\ UNCHANGED current_modifiers
       ELSE /\ last' = [op |-> "native", sent |-> FALSE, block |-> FALSE]
            /\ UNCHANGED <<current_modifiers, key_events>>
    /\ down_block' =
          IF "down_block" \in observing /\ rdev_key_to_modifier(rdev_key) = NoModifier
                /\ rdev_key_to_key(rdev_key) # None
          THEN [down_block EXCEPT ![rdev_key_to_key(rdev_key)] =
                   IF last'.block THEN "blocked" ELSE "passed"]
          ELSE down_block
    /\ held_keys' = IF "held" \in observing THEN held_keys \cup {rdev_key} ELSE held_keys
    /\ order_sent(key_events' # key_events)
    /\ UNCHANGED <<hotkeys, next_id, pressed_hotkeys, blocking_hotkeys, last_state,
                   issued>>
    /\ UNCHANGED <<lifecycle, aside, observing, native>>

\* the rdev grab callback on EventType::KeyRelease(rdev_key)
KeyRelease(rdev_key) ==
    /\ ~stops_processing(listener_running)
    /\ may_deliver
    /\ IF rdev_key_to_modifier(rdev_key) # NoModifier
       THEN /\ current_modifiers' = update_modifiers(current_modifiers, rdev_key, FALSE)
            /\ IF current_modifiers' # current_modifiers
               THEN key_events' = Append(key_events,
                        KeyEvent(current_modifiers', None, FALSE,
                                 rdev_key_to_modifier(rdev_key)))
               ELSE UNCHANGED key_events
            /\ last' = [op |-> "native", sent |-> current_modifiers' # current_modifiers,
                        block |-> FALSE]
       ELSE IF rdev_key_to_key(rdev_key) # None
       THEN /\ key_events' = Append(key_events,
                  KeyEvent(current_modifiers, rdev_key_to_key(rdev_key), FALSE, NoModifier))
            /\ last' = [op |-> "native", sent |-> TRUE,
                        block |-> should_block(SomeBlocking(blocking_hotkeys), current_modifiers,
                                               rdev_key_to_key(rdev_key))]
            /\ UNCHANGED current_modifiers
       ELSE /\ last' = [op |-> "native", sent |-> FALSE, block |-> FALSE]
            /\ UNCHANGED <<current_modifiers, key_events>>
    /\ down_block' =
          IF "down_block" \in observing /\ rdev_key_to_modifier(rdev_key) = NoModifier
                /\ rdev_key_to_key(rdev_key) # None
          THEN [down_block EXCEPT ![rdev_key_to_key(rdev_key)] = "up"]
          ELSE down_block
    /\ held_keys' = IF "held" \in observing THEN held_keys \ {rdev_key} ELSE held_keys
    /\ order_sent(key_events' # key_events)
    /\ UNCHANGED <<hotkeys, next_id, pressed_hotkeys, blocking_hotkeys, last_state,
                   issued>>
    /\ UNCHANGED <<lifecycle, aside, observing, native>>

\* the rdev grab callback on a native event once the running flag of the
\* listener is cleared: it returns Some(event) at once
GrabStopped(rdev_key, pressed) ==
    /\ stops_processing(listener_running)
    /\ last' = [op |-> "native", sent |-> FALSE, block |-> FALSE,
                processed |-> FALSE]
    /\ UNCHANGED <<hotkeys, next_id, pressed_hotkeys, blocking_hotkeys,
                   current_modifiers, key_events, last_state, issued>>
    /\ UNCHANGED <<lifecycle, aside, trace>>

\* a worker that never looks at the running flag
after_iteration_forever(flag) == "recv"

\* where the worker is after a turn of `while running.load(..)`: in
\* recv_timeout again, or out of the loop
after_iteration(flag) == IF flag THEN "recv" ELSE "exiting"

\* one turn of HotkeyManager::event_loop that receives a canonical event:
\* process_event under the manager lock, then every result is sent
EventLoop ==
    /\ worker = "recv"
    /\ key_events # << >>
    /\ \E results \in process_event_results(hotkeys, pressed_hotkeys,
                                             recv(key_events).item) :
         /\ last' = [op |-> "process_event", event |-> recv(key_events).item,
                     results |-> results]
         /\ hotkey_events' =
               IF "order" \in observing
               THEN hotkey_events \o
                      [i \in DOMAIN results |->
                         [event |-> results[i], cause |-> recv(key_seq).item]]
               ELSE hotkey_events
         /\ last_state' = [id \in DOMAIN last_state |->
                             IF \E i \in DOMAIN results : results[i].id = id
                             THEN (CHOOSE s \in {Pressed, Released} :
                                     \E i \in DOMAIN results :
                                        results[i] = HotkeyEvent(id, s))
                             ELSE last_state[id]]
    /\ pressed_hotkeys' = process_event_pressed(hotkeys, pressed_hotkeys,
                                                recv(key_events).item)
    /\ key_events' = recv(key_events).rest
    /\ key_seq' = IF "order" \in observing THEN recv(key_seq).rest ELSE key_seq
    /\ done_seq' = IF "order" \in observing THEN recv(key_seq).item ELSE done_seq
    /\ worker' = after_iteration(running)
    /\ UNCHANGED <<hotkeys, next_id, blocking_hotkeys, current_modifiers, issued>>
    /\ UNCHANGED <<running, listener_running, joined>>
    /\ UNCHANGED <<aside, observing, native, down_block, held_keys, next_seq, recv_seq>>

\* HotkeyManager::recv, or try_recv returning Some: the caller takes the
\* oldest HotkeyEvent out of the channel
Recv ==
    /\ hotkey_events # << >>
    /\ last' = [op |-> "recv", event |-> Head(hotkey_events).event,
                cause |-> Head(hotkey_events).cause]
    /\ recv_seq' = Head(hotkey_events).cause
    /\ hotkey_events' = Tail(hotkey_events)
    /\ UNCHANGED <<hotkeys, next_id, pressed_hotkeys, blocking_hotkeys,
                   current_modifiers, key_events, last_state, issued>>
    /\ UNCHANGED <<lifecycle, aside, observing, native, down_block, held_keys, next_seq,
                   key_seq, done_seq>>

Next ==
    \/ \E hotkey \in HotkeyPool : Register(hotkey)
    \/ \E id \in 0..(MaxIds - 1) : Unregister(id)
    \/ \E rdev_key \in NativeKeys : KeyPress(rdev_key)
    \/ \E rdev_key \in NativeKeys : KeyRelease(rdev_key)
    \/ EventLoop

Spec == Init /\ [][Next]_vars

\* ------------------------- the manager with the key-down answers recorded
\* the hotkeys and native keys of this specification
ReplayPool == {Hotkey({CMD}, "K"), Hotkey(empty, "F1")}
ReplayKeys == {"MetaLeft", "KeyK", "F1"}

InitReplay ==
    /\ HotkeyManager_new
    /\ call = NoCall
    /\ Unlocked
    /\ observing = {"down_block"}
    /\ native = NoNative
    /\ NoTrace

NextReplay ==
    \/ \E hotkey \in ReplayPool : Register(hotkey)
    \/ \E id \in 0..(MaxIds - 1) : Unregister(id)
    \/ \E rdev_key \in ReplayKeys : KeyPress(rdev_key)
    \/ \E rdev_key \in ReplayKeys : KeyRelease(rdev_key)
    \/ EventLoop

SpecReplay == InitReplay /\ [][NextReplay]_vars

\* ------------------------------------------- the manager and its shutdown
\* Drop for HotkeyManager, first half: the running flag is cleared
Drop ==
    /\ running
    /\ running' = FALSE
    /\ last' = [op |-> "drop"]
    /\ UNCHANGED <<hotkeys, next_id, pressed_hotkeys, blocking_hotkeys,
                   current_modifiers, key_events, last_state, issued>>
    /\ UNCHANGED <<listener_running, worker, joined, aside, trace>>

\* one turn of event_loop in which recv_timeout returns Err(Timeout): no
\* canonical event came within RECV_TIMEOUT
WorkerTimeout ==
    /\ worker = "recv"
    /\ key_events = << >>
    /\ worker' = after_iteration(running)
    /\ UNCHANGED <<hotkeys, next_id, pressed_hotkeys, blocking_hotkeys,
                   current_modifiers, key_events, last, last_state, issued>>
    /\ UNCHANGED <<running, listener_running, joined, aside, trace>>

\* event_loop returns: the listener it owns is dropped, which clears the
\* listener's running flag (the Linux listener thread is not joined), and
\* the worker thread ends
WorkerExit ==
    /\ worker = "exiting"
    /\ worker' = "exited"
    /\ listener_running' = FALSE
    /\ UNCHANGED <<hotkeys, next_id, pressed_hotkeys, blocking_hotkeys,
                   current_modifiers, key_events, last, last_state, issued>>
    /\ UNCHANGED <<running, joined, aside, trace>>

\* Drop for HotkeyManager, second half: handle.join() returns
DropJoin ==
    /\ ~running
    /\ worker = "exited"
    /\ ~joined
    /\ joined' = TRUE
    /\ UNCHANGED <<hotkeys, next_id, pressed_hotkeys, blocking_hotkeys,
                   current_modifiers, key_events, last, last_state, issued>>
    /\ UNCHANGED <<running, listener_running, worker, aside, trace>>

\* the hotkeys and native keys of this specification
ShutdownPool == {Hotkey({CMD}, "K")}
ShutdownKeys == {"MetaLeft", "KeyK"}

NextShutdown ==
    \/ \E hotkey \in ShutdownPool : Register(hotkey)
    \/ \E id \in 0..(MaxIds - 1) : Unregister(id)
    \/ \E rdev_key \in ShutdownKeys : KeyPress(rdev_key)
    \/ \E rdev_key \in ShutdownKeys : KeyRelease(rdev_key)
    \/ \E rdev_key \in ShutdownKeys, pressed \in BOOLEAN :
          GrabStopped(rdev_key, pressed)
    \/ EventLoop
    \/ WorkerTimeout
    \/ WorkerExit
    \/ Drop
    \/ DropJoin

\* The worker thread and the thread in drop are scheduled: recv_timeout
\* returns, with an event or after RECV_TIMEOUT, and the steps after it are
\* taken. Nothing is assumed of the native events or of the caller.
SpecShutdown ==
    /\ Init
    /\ [][NextShutdown]_vars
    /\ WF_vars(EventLoop \/ WorkerTimeout)
    /\ WF_vars(WorkerExit)
    /\ WF_vars(DropJoin)

\* -------------------------- the manager with the order of events recorded
\* the hotkeys and native keys of this specification: the release of Cmd
\* releases both hotkeys at once
OrderPool == {Hotkey({CMD}, None), Hotkey({CMD}, "K")}
OrderKeys == {"MetaLeft", "KeyK"}

InitOrder ==
    /\ HotkeyManager_new
    /\ call = NoCall
    /\ Unlocked
    /\ observing = {"order"}
    /\ native = NoNative
    /\ NoTrace

NextOrder ==
    \/ \E hotkey \in OrderPool : Register(hotkey)
    \/ \E id \in 0..(MaxIds - 1) : Unregister(id)
    \/ \E rdev_key \in OrderKeys : KeyPress(rdev_key)
    \/ \E rdev_key \in OrderKeys : KeyRelease(rdev_key)
    \/ EventLoop
    \/ Recv

SpecOrder == InitOrder /\ [][NextOrder]_vars

\* ------------------------------------------------- the Windows backend
\* virtual key codes (platform/windows/keycode.rs, mod vk)
VK_SHIFT == 16
VK_K == 75
VK_LWIN == 91
VK_RWIN == 92
VK_LSHIFT == 160
VK_RSHIFT == 161

vk_to_key(vk_code, is_extended) ==
    CASE vk_code = VK_K -> "K"
      [] OTHER -> None

vk_to_modifier(vk_code) ==
    CASE vk_code \in {VK_SHIFT, VK_LSHIFT, VK_RSHIFT} -> SomeModifier({SHIFT})
      [] vk_code \in {VK_LWIN, VK_RWIN} -> SomeModifier({CMD})
      [] OTHER -> NoModifier

\* the (key, is_down) mouse_hook_proc derives from the window message
mouse_hook_key(msg, has_modifiers) ==
    CASE msg = "WM_LBUTTONDOWN" /\ has_modifiers -> [key |-> "MouseLeft", is_down |-> TRUE]
      [] msg = "WM_LBUTTONUP" /\ has_modifiers -> [key |-> "MouseLeft", is_down |-> FALSE]
      [] msg = "WM_RBUTTONDOWN" /\ has_modifiers -> [key |-> "MouseRight", is_down |-> TRUE]
      [] msg = "WM_RBUTTONUP" /\ has_modifiers -> [key |-> "MouseRight", is_down |-> FALSE]
      [] msg = "WM_MBUTTONDOWN" -> [key |-> "MouseMiddle", is_down |-> TRUE]
      [] msg = "WM_MBUTTONUP" -> [key |-> "MouseMiddle", is_down |-> FALSE]
      [] OTHER -> [key |-> None, is_down |-> FALSE]

\* keyboard_hook_proc, code >= 0; should_block decides between LRESULT(1)
\* and CallNextHookEx
KeyboardHook(vk_code, is_key_down) ==
    /\ Len(key_events) < MaxQueue
    /\ IF vk_to_modifier(vk_code) # NoModifier
       THEN /\ current_modifiers' =
                  IF is_key_down
                  THEN current_modifiers \cup vk_to_modifier(vk_code)[1]
                  ELSE current_modifiers \ vk_to_modifier(vk_code)[1]
            /\ IF current_modifiers' # current_modifiers
               THEN /\ key_events' = Append(key_events,
                          KeyEvent(current_modifiers', None, is_key_down,
                                   vk_to_modifier(vk_code)))
                    /\ last' = [op |-> "native", sent |-> TRUE,
                                block |-> should_block_hotkey(
                                             SomeBlocking(blocking_hotkeys),
                                             current_modifiers', None)]
               ELSE /\ UNCHANGED key_events
                    /\ last' = [op |-> "native", sent |-> FALSE, block |-> FALSE]
       ELSE IF vk_to_key(vk_code, FALSE) # None
       THEN /\ key_events' = Append(key_events,
                  KeyEvent(current_modifiers, vk_to_key(vk_code, FALSE), is_key_down,
                           NoModifier))
            /\ last' = [op |-> "native", sent |-> TRUE,
                        block |-> should_block_hotkey(SomeBlocking(blocking_hotkeys),
                                                      current_modifiers,
                                                      vk_to_key(vk_code, FALSE))]
            /\ UNCHANGED current_modifiers
       ELSE /\ last' = [op |-> "native", sent |-> FALSE, block |-> FALSE]
            /\ UNCHANGED <<current_modifiers, key_events>>
    /\ held_keys' = IF "held" \in observing
                    THEN IF is_key_down
                         THEN held_keys \cup {vk_code}
                         ELSE held_keys \ {vk_code}
                    ELSE held_keys
    /\ UNCHANGED <<hotkeys, next_id, pressed_hotkeys, blocking_hotkeys, last_state,
                   issued>>
    /\ UNCHANGED <<lifecycle, aside, observing, native, down_block, order>>

\* mouse_hook_proc, code >= 0: always CallNextHookEx
MouseHook(msg) ==
    /\ Len(key_events) < MaxQueue
    /\ IF mouse_hook_key(msg, current_modifiers # empty).key # None
       THEN key_events' = Append(key_events,
                KeyEvent(current_modifiers,
                         mouse_hook_key(msg, current_modifiers # empty).key,
                         mouse_hook_key(msg, current_modifiers # empty).is_down,
                         NoModifier))
       ELSE UNCHANGED key_events
    /\ last' = [op |-> "native",
                sent |-> mouse_hook_key(msg, current_modifiers # empty).key # None,
                block |-> FALSE]
    /\ UNCHANGED <<hotkeys, next_id, pressed_hotkeys, blocking_hotkeys,
                   current_modifiers, last_state, issued>>
    /\ UNCHANGED <<lifecycle, aside, trace>>

\* the hotkeys, key codes and mouse messages of this specification
WindowsPool ==
    { Hotkey({CMD}, "K"), Hotkey({CMD}, "MouseLeft"), Hotkey(empty, "MouseMiddle"),
      Hotkey({CMD}, None) }
WindowsKeys == {VK_LWIN, VK_K}
MouseMessages ==
    {"WM_LBUTTONDOWN", "WM_LBUTTONUP", "WM_MBUTTONDOWN", "WM_MBUTTONUP", "WM_MOUSEMOVE"}

NextWindows ==
    \/ \E hotkey \in WindowsPool : Register(hotkey)
    \/ \E id \in 0..(MaxIds - 1) : Unregister(id)
    \/ \E vk_code \in WindowsKeys, is_key_down \in BOOLEAN :
          KeyboardHook(vk_code, is_key_down)
    \/ \E msg \in MouseMessages : MouseHook(msg)
    \/ EventLoop

SpecWindows == Init /\ [][NextWindows]_vars

\* ------------------------------ left and right keys of one modifier
\* The Linux callback and the Windows keyboard hook with both Shift keys, and
\* the history of which native keys are down. A key goes up only if it is
\* down; a press of a key that is down is its auto-repeat.
SidePool == { Hotkey({SHIFT}, "K"), Hotkey({SHIFT}, None), Hotkey(empty, "K") }
SideRdevKeys == {"ShiftLeft", "ShiftRight", "KeyK"}
SideVkCodes == {VK_LSHIFT, VK_RSHIFT, VK_K}
SideNatives == { [target_os |-> "linux"], [target_os |-> "windows"] }

InitSides ==
    /\ HotkeyManager_new
    /\ call = NoCall
    /\ Unlocked
    /\ observing = {"held"}
    /\ native \in SideNatives
    /\ NoTrace

NextSides ==
    \/ \E hotkey \in SidePool : Register(hotkey)
    \/ \E id \in 0..(MaxIds - 1) : Unregister(id)
    \/ /\ native.target_os = "linux"
       /\ \E rdev_key \in SideRdevKeys : KeyPress(rdev_key)
    \/ /\ native.target_os = "linux"
       /\ \E rdev_key \in SideRdevKeys \cap held_keys : KeyRelease(rdev_key)
    \/ /\ native.target_os = "windows"
       /\ \E vk_code \in SideVkCodes : KeyboardHook(vk_code, TRUE)
    \/ /\ native.target_os = "windows"
       /\ \E vk_code \in SideVkCodes \cap held_keys : KeyboardHook(vk_code, FALSE)
    \/ EventLoop

SpecSides == InitSides /\ [][NextSides]_vars

\* ------------------------------------ the paths that take the mutexes
\* Each path of the manager and of the Linux callback, one step per mutex
\* it locks: "state" is Mutex<ManagerState>, "listener" Mutex<ListenerState>,
\* "blocking" the mutex of the Blocking Set. The histories last, last_state
\* and issued are not recorded here.
observed == <<last, last_state, issued, lifecycle>>

\* no thread holds the mutex
free(mutex) ==
    \A t \in Threads : \A i \in DOMAIN holding[t] : holding[t][i] # mutex

\* the calls the caller makes
CallerCalls ==
    { [fn |-> "register", arg |-> h] : h \in ReplayPool }
      \cup { [fn |-> f, arg |-> id] :
               f \in {"unregister", "get_hotkey"}, id \in 0..(MaxIds - 1) }
      \cup { [fn |-> "hotkey_count", arg |-> None] }

\* the caller enters register, unregister, get_hotkey or hotkey_count
Call(c) ==
    /\ pc["caller"].at = "idle"
    /\ c.fn = "register" => next_id < MaxIds
    /\ pc' = [pc EXCEPT !["caller"] = [at |-> "lock_state", fn |-> c.fn, arg |-> c.arg]]
    /\ UNCHANGED <<system, call, holding, trace>>

\* self.state.lock() of the caller, state.lock() of the worker
LockState(t) ==
    /\ pc[t].at = "lock_state"
    /\ free("state")
    /\ holding' = [holding EXCEPT ![t] = Append(@, "state")]
    /\ pc' = [pc EXCEPT ![t].at = "state_locked"]
    /\ UNCHANGED <<system, call, trace>>

\* register under the state mutex: an equal hotkey returns Err and drops the
\* guard; otherwise the entry is inserted and the Blocking Set is locked next
RegisterLocked ==
    /\ pc["caller"].at = "state_locked"
    /\ pc["caller"].fn = "register"
    /\ IF already_registered(hotkeys, pc["caller"].arg)
       THEN /\ holding' = [holding EXCEPT !["caller"] = << >>]
            /\ pc' = [pc EXCEPT !["caller"] = [at |-> "idle"]]
            /\ UNCHANGED <<hotkeys, next_id>>
       ELSE /\ hotkeys' = (register_id(hotkeys, next_id) :> pc["caller"].arg) @@ hotkeys
            /\ next_id' = next_id + 1
            /\ pc' = [pc EXCEPT !["caller"].at = "lock_blocking"]
            /\ UNCHANGED holding
    /\ UNCHANGED <<pressed_hotkeys, blocking_hotkeys, current_modifiers, key_events,
                   observed, call, trace>>

\* unregister under the state mutex: a missing id returns Err and drops the
\* guard; otherwise the entry is removed and the Blocking Set is locked next
UnregisterLocked ==
    /\ pc["caller"].at = "state_locked"
    /\ pc["caller"].fn = "unregister"
    /\ hotkeys' = unregister_hotkeys(hotkeys, pc["caller"].arg)
    /\ IF ~unregister_result(hotkeys, pc["caller"].arg).ok
       THEN /\ holding' = [holding EXCEPT !["caller"] = << >>]
            /\ pc' = [pc EXCEPT !["caller"] = [at |-> "idle"]]
       ELSE /\ pc' = [pc EXCEPT !["caller"] =
                        [at |-> "lock_blocking", fn |-> "unregister",
                         arg |-> hotkeys[pc["caller"].arg]]]
            /\ UNCHANGED holding
    /\ UNCHANGED <<next_id, pressed_hotkeys, blocking_hotkeys, current_modifiers,
                   key_events, observed, call, trace>>

\* get_hotkey and hotkey_count read the table and drop the guard
ReadLocked ==
    /\ pc["caller"].at = "state_locked"
    /\ pc["caller"].fn \in {"get_hotkey", "hotkey_count"}
    /\ holding' = [holding EXCEPT !["caller"] = << >>]
    /\ pc' = [pc EXCEPT !["caller"] = [at |-> "idle"]]
    /\ UNCHANGED <<system, call, trace>>

\* blocking_hotkeys.lock() in register and unregister, hotkeys.lock() in
\* should_block
LockBlocking(t) ==
    /\ pc[t].at = "lock_blocking"
    /\ free("blocking")
    /\ holding' = [holding EXCEPT ![t] = Append(@, "blocking")]
    /\ pc' = [pc EXCEPT ![t].at = "blocking_locked"]
    /\ UNCHANGED <<system, call, trace>>

\* register and unregister change the Blocking Set and return Ok: the guard
\* of the Blocking Set and then the guard of the state are dropped
BlockingLocked ==
    /\ pc["caller"].at = "blocking_locked"
    /\ blocking_hotkeys' =
          IF pc["caller"].fn = "register"
          THEN register_blocking(blocking_hotkeys, pc["caller"].arg)
          ELSE blocking_hotkeys \ {pc["caller"].arg}
    /\ holding' = [holding EXCEPT !["caller"] = << >>]
    /\ pc' = [pc EXCEPT !["caller"] = [at |-> "idle"]]
    /\ UNCHANGED <<hotkeys, next_id, pressed_hotkeys, current_modifiers, key_events,
                   observed, call, trace>>

\* recv_timeout of the worker returns Ok: a canonical event is waiting
WorkerRecv ==
    /\ pc["worker"].at = "recv"
    /\ key_events # << >>
    /\ pc' = [pc EXCEPT !["worker"].at = "lock_state"]
    /\ UNCHANGED <<system, call, holding, trace>>

\* a worker that goes back to recv_timeout with its guard alive
worker_guard_kept(held) == held

\* what the worker holds after one iteration of event_loop: the guard of the
\* state mutex lives in the `if let` of the Ok arm and drops at its end
worker_guard(held) == << >>

\* process_event and the sends under the state mutex, then the guard drops
WorkerLocked ==
    /\ pc["worker"].at = "state_locked"
    /\ pressed_hotkeys' = process_event_pressed(hotkeys, pressed_hotkeys, Head(key_events))
    /\ key_events' = Tail(key_events)
    /\ holding' = [holding EXCEPT !["worker"] = worker_guard(@)]
    /\ pc' = [pc EXCEPT !["worker"].at = "recv"]
    /\ UNCHANGED <<hotkeys, next_id, blocking_hotkeys, current_modifiers, observed,
                   call, trace>>

\* the grab delivers KeyPress(rdev_key) or KeyRelease(rdev_key)
Callback(rdev_key, pressed) ==
    /\ pc["callback"].at = "idle"
    /\ Len(key_events) < MaxQueue
    /\ pc' = [pc EXCEPT !["callback"] =
                 [at |-> "lock_listener", key |-> rdev_key, pressed |-> pressed]]
    /\ UNCHANGED <<system, call, holding, trace>>

\* thread_state.lock() of the callback
LockListener ==
    /\ pc["callback"].at = "lock_listener"
    /\ free("listener")
    /\ holding' = [holding EXCEPT !["callback"] = Append(@, "listener")]
    /\ pc' = [pc EXCEPT !["callback"].at = "listener_locked"]
    /\ UNCHANGED <<system, call, trace>>

\* does the callback reach a call of should_block for this notification:
\* a modifier press that changes the snapshot, or a press or release of a key
calls_should_block(current, rdev_key, pressed) ==
    IF rdev_key_to_modifier(rdev_key) # NoModifier
    THEN pressed /\ update_modifiers(current, rdev_key, TRUE) # current
    ELSE rdev_key_to_key(rdev_key) # None

\* the canonical event the callback sends for the notification, if any;
\* current is the snapshot after update_modifiers
callback_event(before, current, rdev_key, pressed) ==
    IF rdev_key_to_modifier(rdev_key) # NoModifier
    THEN IF current # before
         THEN <<KeyEvent(current, None, pressed, rdev_key_to_modifier(rdev_key))>>
         ELSE << >>
    ELSE IF rdev_key_to_key(rdev_key) # None
    THEN <<KeyEvent(current, rdev_key_to_key(rdev_key), pressed, NoModifier)>>
    ELSE << >>

\* the callback under the listener mutex: the snapshot is updated; a branch
\* that calls should_block goes on to lock the Blocking Set, any other sends
\* its event, if it has one, and drops the guard
ListenerLocked ==
    /\ pc["callback"].at = "listener_locked"
    /\ current_modifiers' =
          update_modifiers(current_modifiers, pc["callback"].key, pc["callback"].pressed)
    /\ IF calls_should_block(current_modifiers, pc["callback"].key,
                             pc["callback"].pressed)
       THEN /\ pc' = [pc EXCEPT !["callback"] =
                        [at |-> "lock_blocking",
                         event |-> callback_event(current_modifiers, current_modifiers',
                                      pc["callback"].key, pc["callback"].pressed)]]
            /\ UNCHANGED <<key_events, holding>>
       ELSE /\ key_events' = key_events \o
                  callback_event(current_modifiers, current_modifiers',
                                 pc["callback"].key, pc["callback"].pressed)
            /\ holding' = [holding EXCEPT !["callback"] = << >>]
            /\ pc' = [pc EXCEPT !["callback"] = [at |-> "idle"]]
    /\ UNCHANGED <<hotkeys, next_id, pressed_hotkeys, blocking_hotkeys, observed,
                   call, trace>>

\* should_block under the mutex of the Blocking Set, called with the listener
\* mutex held: its guard drops, the event is sent, the listener guard drops
ShouldBlockLocked ==
    /\ pc["callback"].at = "blocking_locked"
    /\ key_events' = key_events \o pc["callback"].event
    /\ holding' = [holding EXCEPT !["callback"] = << >>]
    /\ pc' = [pc EXCEPT !["callback"] = [at |-> "idle"]]
    /\ UNCHANGED <<hotkeys, next_id, pressed_hotkeys, blocking_hotkeys,
                   current_modifiers, observed, call, trace>>

NextLocks ==
    \/ \E c \in CallerCalls : Call(c)
    \/ \E t \in {"caller", "worker"} : LockState(t)
    \/ RegisterLocked
    \/ UnregisterLocked
    \/ ReadLocked
    \/ \E t \in {"caller", "callback"} : LockBlocking(t)
    \/ BlockingLocked
    \/ WorkerRecv
    \/ WorkerLocked
    \/ \E rdev_key \in ReplayKeys, pressed \in BOOLEAN : Callback(rdev_key, pressed)
    \/ LockListener
    \/ ListenerLocked
    \/ ShouldBlockLocked

SpecLocks == Init /\ [][NextLocks]_vars

\* ------------------------------------------- single calls of a function
\* the modifier sets and keys a call is made with
CallModifiers == SUBSET {CMD, SHIFT}
CallKeys == {None, "K", "F1"}

\* the listener's blocking_hotkeys field: None, or any set over the pool
CallBlocking == {NoBlocking} \cup { SomeBlocking(set) : set \in SUBSET HotkeyPool }

\* the calls of should_block (Linux, macOS) and should_block_hotkey (Windows)
ShouldBlockCalls ==
    { [fn |-> f, blocking |-> b, modifiers |-> m, key |-> k,
       done |-> FALSE, result |-> FALSE] :
        f \in {"should_block", "should_block_hotkey"}, b \in CallBlocking,
        m \in CallModifiers, k \in CallKeys }

\* platform/macos/listener.rs, spawn: what it returns, given whether
\* check_accessibility() holds and whether run_event_tap gets its event tap,
\* its run loop source and its run loop
macos_spawn(accessibility, tap, source, run_loop) ==
    IF ~accessibility THEN "AccessibilityNotGranted"
    ELSE IF ~tap \/ ~source \/ ~run_loop THEN "EventTapCreationFailed"
    ELSE "Ok"

\* platform/windows/listener.rs, spawn: what it returns, given whether the
\* thread it started gets its keyboard hook and its mouse hook installed; a
\* failure is printed by the thread and the thread ends
windows_spawn(kb_hook, mouse_hook) == "Ok"

\* platform/linux/listener.rs, spawn: what it returns, given whether
\* rdev::grab in the thread it started succeeds; a failure is printed by the
\* thread and the thread ends
linux_spawn(grab) == "Ok"

\* the calls of spawn, with every outcome of the native installation steps
SpawnCalls ==
    { [fn |-> "macos_spawn", accessibility |-> a, tap |-> t, source |-> s,
       run_loop |-> r, done |-> FALSE, result |-> "Pending"] :
        a \in BOOLEAN, t \in BOOLEAN, s \in BOOLEAN, r \in BOOLEAN }
      \cup { [fn |-> "windows_spawn", kb_hook |-> k, mouse_hook |-> m,
               done |-> FALSE, result |-> "Pending"] :
               k \in BOOLEAN, m \in BOOLEAN }
      \cup { [fn |-> "linux_spawn", grab |-> g, done |-> FALSE,
               result |-> "Pending"] : g \in BOOLEAN }

\* KeyboardListener::new_internal, and HotkeyManager::new around it, on macOS
SpawnMacos ==
    /\ call.fn = "macos_spawn"
    /\ ~call.done
    /\ call' = [call EXCEPT !.done = TRUE,
                            !.result = macos_spawn(call.accessibility, call.tap,
                                                   call.source, call.run_loop)]
    /\ UNCHANGED <<system, trace, pc, holding>>

\* the same on Windows
SpawnWindows ==
    /\ call.fn = "windows_spawn"
    /\ ~call.done
    /\ call' = [call EXCEPT !.done = TRUE,
                            !.result = windows_spawn(call.kb_hook, call.mouse_hook)]
    /\ UNCHANGED <<system, trace, pc, holding>>

\* the same on Linux
SpawnLinux ==
    /\ call.fn = "linux_spawn"
    /\ ~call.done
    /\ call' = [call EXCEPT !.done = TRUE, !.result = linux_spawn(call.grab)]
    /\ UNCHANGED <<system, trace, pc, holding>>

InitCalls ==
    /\ HotkeyManager_new
    /\ call \in ShouldBlockCalls \cup SpawnCalls
    /\ Unlocked
    /\ observing = {}
    /\ native = NoNative
    /\ NoTrace

\* ListenerState::should_block runs
ShouldBlock ==
    /\ call.fn = "should_block"
    /\ ~call.done
    /\ call' = [call EXCEPT !.done = TRUE,
                            !.result = should_block(call.blocking, call.modifiers,
                                                    call.key)]
    /\ UNCHANGED <<system, trace, pc, holding>>

\* should_block_hotkey of the Windows hook runs
ShouldBlockHotkey ==
    /\ call.fn = "should_block_hotkey"
    /\ ~call.done
    /\ call' = [call EXCEPT !.done = TRUE,
                            !.result = should_block_hotkey(call.blocking,
                                                           call.modifiers, call.key)]
    /\ UNCHANGED <<system, trace, pc, holding>>

NextCalls ==
    \/ ShouldBlock
    \/ ShouldBlockHotkey
    \/ SpawnMacos
    \/ SpawnWindows
    \/ SpawnLinux

SpecCalls == InitCalls /\ [][NextCalls]_vars

\* ------------------------------------- a modifier no hotkey asks for
\* the manager on the Linux callback, with a modifier-only, a key-based and
\* a key-only hotkey and with Shift as a modifier none of them contains
ExtraPool == { Hotkey({CMD}, None), Hotkey({CMD}, "K"), Hotkey(empty, "K") }
ExtraKeys == {"MetaLeft", "ShiftLeft", "KeyK"}

NextExtra ==
    \/ \E hotkey \in ExtraPool : Register(hotkey)
    \/ \E id \in 0..(MaxIds - 1) : Unregister(id)
    \/ \E rdev_key \in ExtraKeys : KeyPress(rdev_key)
    \/ \E rdev_key \in ExtraKeys : KeyRelease(rdev_key)
    \/ EventLoop

SpecExtra == Init /\ [][NextExtra]_vars

\* ------------------------------------------------- the macOS event tap
\* platform/macos/keycode.rs, mod keycodes; keycodes_ISO_SECTION (0x0A) is
\* the code of a key that module has no entry for
keycodes_ISO_SECTION == 10
keycodes_K == 40
keycodes_COMMAND == 55
keycodes_SHIFT == 56
keycodes_CAPS_LOCK == 57

\* keycode_to_key without the entry of Caps Lock (mutant)
keycode_to_key_no_lock(keycode) ==
    CASE keycode = keycodes_K -> "K"
      [] OTHER -> None

keycode_to_key(keycode) ==
    CASE keycode = keycodes_K -> "K"
      [] keycode = keycodes_CAPS_LOCK -> "CapsLock"
      [] OTHER -> None

keycode_to_modifier(keycode) ==
    CASE keycode = keycodes_COMMAND -> SomeModifier({CMD})
      [] keycode = keycodes_SHIFT -> SomeModifier({SHIFT})
      [] OTHER -> NoModifier

\* flags_to_modifiers: CGEventFlags are the set of the masks that are set
flags_to_modifiers(flags) ==
    (IF "MaskCommand" \in flags THEN {CMD} ELSE empty)
      \cup (IF "MaskShift" \in flags THEN {SHIFT} ELSE empty)
      \cup (IF "MaskControl" \in flags THEN {CTRL} ELSE empty)

\* the modifier keys of this keyboard and the mask the OS sets while one of
\* them is held
ModifierKeycodes == {keycodes_COMMAND, keycodes_SHIFT}
keycode_mask(keycode) ==
    CASE keycode = keycodes_COMMAND -> "MaskCommand"
      [] keycode = keycodes_SHIFT -> "MaskShift"

\* the CGEventFlags the OS puts on an event: one mask per modifier that is
\* held, and MaskAlphaShift while Caps Lock is on
event_flags(os) ==
    { keycode_mask(keycode) : keycode \in os.held }
      \cup (IF os.caps THEN {"MaskAlphaShift"} ELSE {})

\* event_tap_callback on an event of type event_type with this key code and
\* these flags; returning NULL is block = TRUE
event_tap_callback(event_type, keycode, flags) ==
    IF event_type \in {"KeyDown", "KeyUp"}
    THEN /\ key_events' = Append(key_events,
               KeyEvent(flags_to_modifiers(flags), keycode_to_key(keycode),
                        event_type = "KeyDown", NoModifier))
         /\ last' = [op |-> "native", sent |-> TRUE,
                     block |-> should_block(SomeBlocking(blocking_hotkeys),
                                            flags_to_modifiers(flags),
                                            keycode_to_key(keycode))]
         /\ UNCHANGED current_modifiers
    ELSE /\ event_type = "FlagsChanged"
         /\ current_modifiers' = flags_to_modifiers(flags)
         /\ IF keycode_to_key(keycode) # None
            THEN /\ key_events' = Append(key_events,
                       KeyEvent(flags_to_modifiers(flags), keycode_to_key(keycode),
                                "MaskAlphaShift" \in flags, NoModifier))
                 /\ last' = [op |-> "native", sent |-> TRUE,
                             block |-> should_block(SomeBlocking(blocking_hotkeys),
                                                    flags_to_modifiers(flags),
                                                    keycode_to_key(keycode))]
            ELSE IF flags_to_modifiers(flags) # current_modifiers
            THEN /\ key_events' = Append(key_events,
                       KeyEvent(flags_to_modifiers(flags), None,
                                flags_to_modifiers(flags) \ current_modifiers # {},
                                keycode_to_modifier(keycode)))
                 /\ last' = [op |-> "native", sent |-> TRUE,
                             block |->
                                IF flags_to_modifiers(flags) \ current_modifiers # {}
                                THEN should_block(SomeBlocking(blocking_hotkeys),
                                                  flags_to_modifiers(flags), None)
                                ELSE FALSE]
            ELSE /\ UNCHANGED key_events
                 /\ last' = [op |-> "native", sent |-> FALSE, block |-> FALSE]

\* what an event tap notification leaves alone
event_tap_frame ==
    /\ UNCHANGED <<hotkeys, next_id, pressed_hotkeys, blocking_hotkeys, last_state,
                   issued>>
    /\ UNCHANGED <<lifecycle, aside, observing, down_block, held_keys, order>>

\* a key that is no modifier and no lock key goes down (or repeats), or up:
\* the tap is called with KeyDown or KeyUp
MacKey(keycode, is_down) ==
    /\ native.target_os = "macos"
    /\ may_deliver
    /\ event_tap_callback(IF is_down THEN "KeyDown" ELSE "KeyUp", keycode,
                          event_flags(native))
    /\ UNCHANGED native
    /\ event_tap_frame

\* a modifier key goes down, or up if it was held: the OS changes its flags
\* and the tap is called with FlagsChanged
MacModifier(keycode) ==
    /\ native.target_os = "macos"
    /\ may_deliver
    /\ native' = [native EXCEPT !.held = IF keycode \in native.held
                                         THEN native.held \ {keycode}
                                         ELSE native.held \cup {keycode}]
    /\ event_tap_callback("FlagsChanged", keycode, event_flags(native'))
    /\ event_tap_frame

\* Caps Lock is tapped: the OS toggles it and the tap is called with
\* FlagsChanged once; lock_event keeps the direction of the canonical event
\* sent for the tap
MacCapsLock ==
    /\ native.target_os = "macos"
    /\ may_deliver
    /\ event_tap_callback("FlagsChanged", keycodes_CAPS_LOCK,
                          event_flags([native EXCEPT !.caps = ~native.caps]))
    /\ native' = [native EXCEPT
                     !.caps = ~native.caps,
                     !.lock_event =
                        IF key_events' = key_events THEN "none"
                        ELSE IF key_events'[Len(key_events')].is_key_down
                             THEN "down" ELSE "up"]
    /\ event_tap_frame

\* ------------------------------------------ the three native backends
\* the listener is built for one target_os. On macOS the keyboard is in any
\* state when the tap is installed: modifier keys may be held, Caps Lock on
BackendNatives ==
    { [target_os |-> os, held |-> {}, caps |-> FALSE, lock_event |-> "none"] :
         os \in {"linux", "windows"} }
      \cup { [target_os |-> "macos", held |-> h, caps |-> c, lock_event |-> "none"] :
               h \in SUBSET ModifierKeycodes, c \in BOOLEAN }

\* the hotkeys, keys and messages of this specification; the rdev key
\* Unknown(0) is one that rdev_key_to_key has no entry for
BackendPool == { Hotkey({CMD}, None), Hotkey({CMD}, "K") }
BackendRdevKeys == {"MetaLeft", "ShiftLeft", "KeyK", "Unknown(0)"}
BackendVkCodes == {VK_LWIN, VK_LSHIFT, VK_K}
BackendMessages == {"WM_LBUTTONDOWN", "WM_LBUTTONUP"}
BackendKeycodes == {keycodes_K, keycodes_ISO_SECTION}

InitBackends ==
    /\ HotkeyManager_new
    /\ call = NoCall
    /\ Unlocked
    /\ observing = {}
    /\ native \in BackendNatives
    /\ NoTrace

NextBackends ==
    \/ \E hotkey \in BackendPool : Register(hotkey)
    \/ /\ native.target_os = "linux"
       /\ \E rdev_key \in BackendRdevKeys : KeyPress(rdev_key)
    \/ /\ native.target_os = "linux"
       /\ \E rdev_key \in BackendRdevKeys : KeyRelease(rdev_key)
    \/ /\ native.target_os = "windows"
       /\ \E vk_code \in BackendVkCodes, is_key_down \in BOOLEAN :
             KeyboardHook(vk_code, is_key_down)
    \/ /\ native.target_os = "windows"
       /\ \E msg \in BackendMessages : MouseHook(msg)
    \/ \E keycode \in BackendKeycodes, is_down \in BOOLEAN : MacKey(keycode, is_down)
    \/ \E keycode \in ModifierKeycodes : MacModifier(keycode)
    \/ MacCapsLock
    \/ EventLoop

SpecBackends == InitBackends /\ [][NextBackends]_vars

\* ------------------------------------------------ the types module alone
\* the remaining modifier bits of bitflags Modifiers (types/modifiers.rs)
OPT == "OPT"
FN == "FN"

\* every value of Modifiers: the 32 sets over its five bits
AllModifiers == SUBSET {CMD, SHIFT, CTRL, OPT, FN}

\* Result<T>: Ok(value) and Err(error), the error by the name of its variant
Ok(v) == [ok |-> TRUE, value |-> v]
Err(e) == [ok |-> FALSE, err |-> e]

\* a text (&str, String) is the sequence of its characters; Backtick is
\* the character U+0060, which a string of TLA+ cannot hold
Backtick == "U+0060"
Upper ==
    <<"A", "B", "C", "D", "E", "F", "G", "H", "I", "J", "K", "L", "M",
      "N", "O", "P", "Q", "R", "S", "T", "U", "V", "W", "X", "Y", "Z">>
Lower ==
    <<"a", "b", "c", "d", "e", "f", "g", "h", "i", "j", "k", "l", "m",
      "n", "o", "p", "q", "r", "s", "t", "u", "v", "w", "x", "y", "z">>

\* str::to_lowercase on the characters of this model
to_lowercase(s) ==
    [i \in 1..Len(s) |->
        IF \E n \in 1..26 : Upper[n] = s[i]
        THEN Lower[CHOOSE n \in 1..26 : Upper[n] = s[i]]
        ELSE s[i]]

\* str::trim: leading and trailing white space removed
RECURSIVE trim_start(_)
trim_start(s) ==
    IF s # << >> /\ Head(s) = " " THEN trim_start(Tail(s)) ELSE s

RECURSIVE trim_end(_)
trim_end(s) ==
    IF s # << >> /\ s[Len(s)] = " " THEN trim_end(SubSeq(s, 1, Len(s) - 1))
    ELSE s

trim(s) == trim_end(trim_start(s))

\* str::split('+'): the parts between the '+' characters, empty ones included
RECURSIVE split(_)
split(s) ==
    IF \E i \in 1..Len(s) : s[i] = "+"
    THEN LET i == CHOOSE i \in 1..Len(s) :
                      s[i] = "+" /\ \A j \in 1..(i - 1) : s[j] # "+"
         IN  <<SubSeq(s, 1, i - 1)>> \o split(SubSeq(s, i + 1, Len(s)))
    ELSE <<s>>

\* Modifiers::parse_single
parse_single(s) ==
    LET l == to_lowercase(s)
    IN  CASE l \in {<<"c", "m", "d">>, <<"c", "o", "m", "m", "a", "n", "d">>,
                    <<"m", "e", "t", "a">>, <<"s", "u", "p", "e", "r">>,
                    <<"w", "i", "n">>, <<"w", "i", "n", "d", "o", "w", "s">>}
               -> SomeModifier({CMD})
          [] l = <<"s", "h", "i", "f", "t">> -> SomeModifier({SHIFT})
          [] l \in {<<"c", "t", "r", "l">>, <<"c", "o", "n", "t", "r", "o", "l">>}
               -> SomeModifier({CTRL})
          [] l \in {<<"o", "p", "t">>, <<"o", "p", "t", "i", "o", "n">>,
                    <<"a", "l", "t">>}
               -> SomeModifier({OPT})
          [] l \in {<<"f", "n">>, <<"f", "u", "n", "c", "t", "i", "o", "n">>}
               -> SomeModifier({FN})
          [] OTHER -> NoModifier

\* enum Key: every variant, by its name
Keys ==
    {"A", "B", "C", "D", "E", "F", "G", "H", "I", "J", "K", "L", "M", "N",
     "O", "P", "Q", "R", "S", "T", "U", "V", "W", "X", "Y", "Z", "Num0",
     "Num1", "Num2", "Num3", "Num4", "Num5", "Num6", "Num7", "Num8", "Num9",
     "F1", "F2", "F3", "F4", "F5", "F6", "F7", "F8", "F9", "F10", "F11",
     "F12", "F13", "F14", "F15", "F16", "F17", "F18", "F19", "F20", "Space",
     "Return", "Tab", "Escape", "Delete", "ForwardDelete", "Home", "End",
     "PageUp", "PageDown", "LeftArrow", "RightArrow", "UpArrow",
     "DownArrow", "Minus", "Equal", "LeftBracket", "RightBracket",
     "Backslash", "Semicolon", "Quote", "Comma", "Period", "Slash", "Grave",
     "Keypad0", "Keypad1", "Keypad2", "Keypad3", "Keypad4", "Keypad5",
     "Keypad6", "Keypad7", "Keypad8", "Keypad9", "KeypadDecimal",
     "KeypadMultiply", "KeypadPlus", "KeypadClear", "KeypadDivide",
     "KeypadEnter", "KeypadMinus", "KeypadEquals", "CapsLock", "ScrollLock",
     "NumLock", "MouseLeft", "MouseRight", "MouseMiddle", "MouseX1",
     "MouseX2"}

\* impl Display for Key: the text written for a key, character by character
Key_fmt(key) ==
    CASE key = "A" -> <<"A">>
      [] key = "B" -> <<"B">>
      [] key = "C" -> <<"C">>
      [] key = "D" -> <<"D">>
      [] key = "E" -> <<"E">>
      [] key = "F" -> <<"F">>
      [] key = "G" -> <<"G">>
      [] key = "H" -> <<"H">>
      [] key = "I" -> <<"I">>
      [] key = "J" -> <<"J">>
      [] key = "K" -> <<"K">>
      [] key = "L" -> <<"L">>
      [] key = "M" -> <<"M">>
      [] key = "N" -> <<"N">>
      [] key = "O" -> <<"O">>
      [] key = "P" -> <<"P">>
      [] key = "Q" -> <<"Q">>
      [] key = "R" -> <<"R">>
      [] key = "S" -> <<"S">>
      [] key = "T" -> <<"T">>
      [] key = "U" -> <<"U">>
      [] key = "V" -> <<"V">>
      [] key = "W" -> <<"W">>
      [] key = "X" -> <<"X">>
      [] key = "Y" -> <<"Y">>
      [] key = "Z" -> <<"Z">>
      [] key = "Num0" -> <<"0">>
      [] key = "Num1" -> <<"1">>
      [] key = "Num2" -> <<"2">>
      [] key = "Num3" -> <<"3">>
      [] key = "Num4" -> <<"4">>
      [] key = "Num5" -> <<"5">>
      [] key = "Num6" -> <<"6">>
      [] key = "Num7" -> <<"7">>
      [] key = "Num8" -> <<"8">>
      [] key = "Num9" -> <<"9">>
      [] key = "F1" -> <<"F", "1">>
      [] key = "F2" -> <<"F", "2">>
      [] key = "F3" -> <<"F", "3">>
      [] key = "F4" -> <<"F", "4">>
      [] key = "F5" -> <<"F", "5">>
      [] key = "F6" -> <<"F", "6">>
      [] key = "F7" -> <<"F", "7">>
      [] key = "F8" -> <<"F", "8">>
      [] key = "F9" -> <<"F", "9">>
      [] key = "F10" -> <<"F", "1", "0">>
      [] key = "F11" -> <<"F", "1", "1">>
      [] key = "F12" -> <<"F", "1", "2">>
      [] key = "F13" -> <<"F", "1", "3">>
      [] key = "F14" -> <<"F", "1", "4">>
      [] key = "F15" -> <<"F", "1", "5">>
      [] key = "F16" -> <<"F", "1", "6">>
      [] key = "F17" -> <<"F", "1", "7">>
      [] key = "F18" -> <<"F", "1", "8">>
      [] key = "F19" -> <<"F", "1", "9">>
      [] key = "F20" -> <<"F", "2", "0">>
      [] key = "Space" -> <<"S", "p", "a", "c", "e">>
      [] key = "Return" -> <<"R", "e", "t", "u", "r", "n">>
      [] key = "Tab" -> <<"T", "a", "b">>
      [] key = "Escape" -> <<"E", "s", "c", "a", "p", "e">>
      [] key = "Delete" -> <<"D", "e", "l", "e", "t", "e">>
      [] key = "ForwardDelete" -> <<"F", "o", "r", "w", "a", "r", "d", "D", "e", "l", "e", "t", "e">>
      [] key = "Home" -> <<"H", "o", "m", "e">>
      [] key = "End" -> <<"E", "n", "d">>
      [] key = "PageUp" -> <<"P", "a", "g", "e", "U", "p">>
      [] key = "PageDown" -> <<"P", "a", "g", "e", "D", "o", "w", "n">>
      [] key = "LeftArrow" -> <<"L", "e", "f", "t">>
      [] key = "RightArrow" -> <<"R", "i", "g", "h", "t">>
      [] key = "UpArrow" -> <<"U", "p">>
      [] key = "DownArrow" -> <<"D", "o", "w", "n">>
      [] key = "Minus" -> <<"-">>
      [] key = "Equal" -> <<"=">>
      [] key = "LeftBracket" -> <<"[">>
      [] key = "RightBracket" -> <<"]">>
      [] key = "Backslash" -> <<"\\">>
      [] key = "Semicolon" -> <<";">>
      [] key = "Quote" -> <<"'">>
      [] key = "Comma" -> <<",">>
      [] key = "Period" -> <<".">>
      [] key = "Slash" -> <<"/">>
      [] key = "Grave" -> <<Backtick>>
      [] key = "Keypad0" -> <<"K", "e", "y", "p", "a", "d", "0">>
      [] key = "Keypad1" -> <<"K", "e", "y", "p", "a", "d", "1">>
      [] key = "Keypad2" -> <<"K", "e", "y", "p", "a", "d", "2">>
      [] key = "Keypad3" -> <<"K", "e", "y", "p", "a", "d", "3">>
      [] key = "Keypad4" -> <<"K", "e", "y", "p", "a", "d", "4">>
      [] key = "Keypad5" -> <<"K", "e", "y", "p", "a", "d", "5">>
      [] key = "Keypad6" -> <<"K", "e", "y", "p", "a", "d", "6">>
      [] key = "Keypad7" -> <<"K", "e", "y", "p", "a", "d", "7">>
      [] key = "Keypad8" -> <<"K", "e", "y", "p", "a", "d", "8">>
      [] key = "Keypad9" -> <<"K", "e", "y", "p", "a", "d", "9">>
      [] key = "KeypadDecimal" -> <<"K", "e", "y", "p", "a", "d", ".">>
      [] key = "KeypadMultiply" -> <<"K", "e", "y", "p", "a", "d", "*">>
      [] key = "KeypadPlus" -> <<"K", "e", "y", "p", "a", "d", "+">>
      [] key = "KeypadClear" -> <<"K", "e", "y", "p", "a", "d", "C", "l", "e", "a", "r">>
      [] key = "KeypadDivide" -> <<"K", "e", "y", "p", "a", "d", "/">>
      [] key = "KeypadEnter" -> <<"K", "e", "y", "p", "a", "d", "E", "n", "t", "e", "r">>
      [] key = "KeypadMinus" -> <<"K", "e", "y", "p", "a", "d", "-">>
      [] key = "KeypadEquals" -> <<"K", "e", "y", "p", "a", "d", "=">>
      [] key = "CapsLock" -> <<"C", "a", "p", "s", "L", "o", "c", "k">>
      [] key = "ScrollLock" -> <<"S", "c", "r", "o", "l", "l", "L", "o", "c", "k">>
      [] key = "NumLock" -> <<"N", "u", "m", "L", "o", "c", "k">>
      [] key = "MouseLeft" -> <<"M", "o", "u", "s", "e", "L", "e", "f", "t">>
      [] key = "MouseRight" -> <<"M", "o", "u", "s", "e", "R", "i", "g", "h", "t">>
      [] key = "MouseMiddle" -> <<"M", "o", "u", "s", "e", "M", "i", "d", "d", "l", "e">>
      [] key = "MouseX1" -> <<"M", "o", "u", "s", "e", "X", "1">>
      [] key = "MouseX2" -> <<"M", "o", "u", "s", "e", "X", "2">>

\* the match of Key::from_str on the trimmed, lower-cased text
Key_match(s) ==
    CASE s = <<"a">> -> Ok("A")
      [] s = <<"b">> -> Ok("B")
      [] s = <<"c">> -> Ok("C")
      [] s = <<"d">> -> Ok("D")
      [] s = <<"e">> -> Ok("E")
      [] s = <<"f">> -> Ok("F")
      [] s = <<"g">> -> Ok("G")
      [] s = <<"h">> -> Ok("H")
      [] s = <<"i">> -> Ok("I")
      [] s = <<"j">> -> Ok("J")
      [] s = <<"k">> -> Ok("K")
      [] s = <<"l">> -> Ok("L")
      [] s = <<"m">> -> Ok("M")
      [] s = <<"n">> -> Ok("N")
      [] s = <<"o">> -> Ok("O")
      [] s = <<"p">> -> Ok("P")
      [] s = <<"q">> -> Ok("Q")
      [] s = <<"r">> -> Ok("R")
      [] s = <<"s">> -> Ok("S")
      [] s = <<"t">> -> Ok("T")
      [] s = <<"u">> -> Ok("U")
      [] s = <<"v">> -> Ok("V")
      [] s = <<"w">> -> Ok("W")
      [] s = <<"x">> -> Ok("X")
      [] s = <<"y">> -> Ok("Y")
      [] s = <<"z">> -> Ok("Z")
      [] s \in {<<"0">>, <<"n", "u", "m", "0">>} -> Ok("Num0")
      [] s \in {<<"1">>, <<"n", "u", "m", "1">>} -> Ok("Num1")
      [] s \in {<<"2">>, <<"n", "u", "m", "2">>} -> Ok("Num2")
      [] s \in {<<"3">>, <<"n", "u", "m", "3">>} -> Ok("Num3")
      [] s \in {<<"4">>, <<"n", "u", "m", "4">>} -> Ok("Num4")
      [] s \in {<<"5">>, <<"n", "u", "m", "5">>} -> Ok("Num5")
      [] s \in {<<"6">>, <<"n", "u", "m", "6">>} -> Ok("Num6")
      [] s \in {<<"7">>, <<"n", "u", "m", "7">>} -> Ok("Num7")
      [] s \in {<<"8">>, <<"n", "u", "m", "8">>} -> Ok("Num8")
      [] s \in {<<"9">>, <<"n", "u", "m", "9">>} -> Ok("Num9")
      [] s = <<"f", "1">> -> Ok("F1")
      [] s = <<"f", "2">> -> Ok("F2")
      [] s = <<"f", "3">> -> Ok("F3")
      [] s = <<"f", "4">> -> Ok("F4")
      [] s = <<"f", "5">> -> Ok("F5")
      [] s = <<"f", "6">> -> Ok("F6")
      [] s = <<"f", "7">> -> Ok("F7")
      [] s = <<"f", "8">> -> Ok("F8")
      [] s = <<"f", "9">> -> Ok("F9")
      [] s = <<"f", "1", "0">> -> Ok("F10")
      [] s = <<"f", "1", "1">> -> Ok("F11")
      [] s = <<"f", "1", "2">> -> Ok("F12")
      [] s = <<"f", "1", "3">> -> Ok("F13")
      [] s = <<"f", "1", "4">> -> Ok("F14")
      [] s = <<"f", "1", "5">> -> Ok("F15")
      [] s = <<"f", "1", "6">> -> Ok("F16")
      [] s = <<"f", "1", "7">> -> Ok("F17")
      [] s = <<"f", "1", "8">> -> Ok("F18")
      [] s = <<"f", "1", "9">> -> Ok("F19")
      [] s = <<"f", "2", "0">> -> Ok("F20")
      [] s \in {<<"s", "p", "a", "c", "e">>, <<" ">>} -> Ok("Space")
      [] s \in {<<"r", "e", "t", "u", "r", "n">>,
                  <<"e", "n", "t", "e", "r">>}
           -> Ok("Return")
      [] s = <<"t", "a", "b">> -> Ok("Tab")
      [] s \in {<<"e", "s", "c", "a", "p", "e">>,
                  <<"e", "s", "c">>}
           -> Ok("Escape")
      [] s \in {<<"d", "e", "l", "e", "t", "e">>,
                  <<"b", "a", "c", "k", "s", "p", "a", "c", "e">>}
           -> Ok("Delete")
      [] s \in {<<"f", "o", "r", "w", "a", "r", "d", "d", "e", "l", "e", "t", "e">>,
                  <<"d", "e", "l">>}
           -> Ok("ForwardDelete")
      [] s = <<"h", "o", "m", "e">> -> Ok("Home")
      [] s = <<"e", "n", "d">> -> Ok("End")
      [] s = <<"p", "a", "g", "e", "u", "p">> -> Ok("PageUp")
      [] s = <<"p", "a", "g", "e", "d", "o", "w", "n">> -> Ok("PageDown")
      [] s \in {<<"l", "e", "f", "t">>,
                  <<"l", "e", "f", "t", "a", "r", "r", "o", "w">>}
           -> Ok("LeftArrow")
      [] s \in {<<"r", "i", "g", "h", "t">>,
                  <<"r", "i", "g", "h", "t", "a", "r", "r", "o", "w">>}
           -> Ok("RightArrow")
      [] s \in {<<"u", "p">>,
                  <<"u", "p", "a", "r", "r", "o", "w">>}
           -> Ok("UpArrow")
      [] s \in {<<"d", "o", "w", "n">>,
                  <<"d", "o", "w", "n", "a", "r", "r", "o", "w">>}
           -> Ok("DownArrow")
      [] s \in {<<"-">>, <<"m", "i", "n", "u", "s">>} -> Ok("Minus")
      [] s \in {<<"=">>,
                  <<"e", "q", "u", "a", "l">>,
                  <<"e", "q", "u", "a", "l", "s">>}
           -> Ok("Equal")
      [] s \in {<<"[">>,
                  <<"l", "e", "f", "t", "b", "r", "a", "c", "k", "e", "t">>}
           -> Ok("LeftBracket")
      [] s \in {<<"]">>,
                  <<"r", "i", "g", "h", "t", "b", "r", "a", "c", "k", "e", "t">>}
           -> Ok("RightBracket")
      [] s \in {<<"\\">>,
                  <<"b", "a", "c", "k", "s", "l", "a", "s", "h">>}
           -> Ok("Backslash")
      [] s \in {<<";">>,
                  <<"s", "e", "m", "i", "c", "o", "l", "o", "n">>}
           -> Ok("Semicolon")
      [] s \in {<<"'">>, <<"q", "u", "o", "t", "e">>} -> Ok("Quote")
      [] s \in {<<",">>, <<"c", "o", "m", "m", "a">>} -> Ok("Comma")
      [] s \in {<<".">>, <<"p", "e", "r", "i", "o", "d">>} -> Ok("Period")
      [] s \in {<<"/">>, <<"s", "l", "a", "s", "h">>} -> Ok("Slash")
      [] s \in {<<Backtick>>,
                  <<"g", "r", "a", "v", "e">>,
                  <<"b", "a", "c", "k", "t", "i", "c", "k">>}
           -> Ok("Grave")
      [] s = <<"k", "e", "y", "p", "a", "d", "0">> -> Ok("Keypad0")
      [] s = <<"k", "e", "y", "p", "a", "d", "1">> -> Ok("Keypad1")
      [] s = <<"k", "e", "y", "p", "a", "d", "2">> -> Ok("Keypad2")
      [] s = <<"k", "e", "y", "p", "a", "d", "3">> -> Ok("Keypad3")
      [] s = <<"k", "e", "y", "p", "a", "d", "4">> -> Ok("Keypad4")
      [] s = <<"k", "e", "y", "p", "a", "d", "5">> -> Ok("Keypad5")
      [] s = <<"k", "e", "y", "p", "a", "d", "6">> -> Ok("Keypad6")
      [] s = <<"k", "e", "y", "p", "a", "d", "7">> -> Ok("Keypad7")
      [] s = <<"k", "e", "y", "p", "a", "d", "8">> -> Ok("Keypad8")
      [] s = <<"k", "e", "y", "p", "a", "d", "9">> -> Ok("Keypad9")
      [] s \in {<<"k", "e", "y", "p", "a", "d", ".">>,
                  <<"k", "e", "y", "p", "a", "d", "d", "e", "c", "i", "m", "a", "l">>}
           -> Ok("KeypadDecimal")
      [] s \in {<<"k", "e", "y", "p", "a", "d", "*">>,
                  <<"k", "e", "y", "p", "a", "d", "m", "u", "l", "t", "i", "p", "l", "y">>}
           -> Ok("KeypadMultiply")
      [] s \in {<<"k", "e", "y", "p", "a", "d", "+">>,
                  <<"k", "e", "y", "p", "a", "d", "p", "l", "u", "s">>}
           -> Ok("KeypadPlus")
      [] s \in {<<"k", "e", "y", "p", "a", "d", "c", "l", "e", "a", "r">>}
           -> Ok("KeypadClear")
      [] s \in {<<"k", "e", "y", "p", "a", "d", "/">>,
                  <<"k", "e", "y", "p", "a", "d", "d", "i", "v", "i", "d", "e">>}
           -> Ok("KeypadDivide")
      [] s \in {<<"k", "e", "y", "p", "a", "d", "e", "n", "t", "e", "r">>}
           -> Ok("KeypadEnter")
      [] s \in {<<"k", "e", "y", "p", "a", "d", "-">>,
                  <<"k", "e", "y", "p", "a", "d", "m", "i", "n", "u", "s">>}
           -> Ok("KeypadMinus")
      [] s \in {<<"k", "e", "y", "p", "a", "d", "=">>,
                  <<"k", "e", "y", "p", "a", "d", "e", "q", "u", "a", "l", "s">>}
           -> Ok("KeypadEquals")
      [] s \in {<<"c", "a", "p", "s", "l", "o", "c", "k">>,
                  <<"c", "a", "p", "s">>}
           -> Ok("CapsLock")
      [] s \in {<<"s", "c", "r", "o", "l", "l", "l", "o", "c", "k">>,
                  <<"s", "c", "r", "o", "l", "l">>}
           -> Ok("ScrollLock")
      [] s = <<"n", "u", "m", "l", "o", "c", "k">> -> Ok("NumLock")
      [] s \in {<<"m", "o", "u", "s", "e", "l", "e", "f", "t">>,
                  <<"l", "e", "f", "t", "c", "l", "i", "c", "k">>,
                  <<"l", "m", "b">>,
                  <<"m", "o", "u", "s", "e", "1">>}
           -> Ok("MouseLeft")
      [] s \in {<<"m", "o", "u", "s", "e", "r", "i", "g", "h", "t">>,
                  <<"r", "i", "g", "h", "t", "c", "l", "i", "c", "k">>,
                  <<"r", "m", "b">>,
                  <<"m", "o", "u", "s", "e", "2">>}
           -> Ok("MouseRight")
      [] s \in {<<"m", "o", "u", "s", "e", "m", "i", "d", "d", "l", "e">>,
                  <<"m", "i", "d", "d", "l", "e", "c", "l", "i", "c", "k">>,
                  <<"m", "m", "b">>,
                  <<"m", "o", "u", "s", "e", "3">>}
           -> Ok("MouseMiddle")
      [] s \in {<<"m", "o", "u", "s", "e", "x", "1">>,
                  <<"m", "o", "u", "s", "e", "4">>,
                  <<"b", "a", "c", "k">>,
                  <<"x", "b", "u", "t", "t", "o", "n", "1">>}
           -> Ok("MouseX1")
      [] s \in {<<"m", "o", "u", "s", "e", "x", "2">>,
                  <<"m", "o", "u", "s", "e", "5">>,
                  <<"f", "o", "r", "w", "a", "r", "d">>,
                  <<"x", "b", "u", "t", "t", "o", "n", "2">>}
           -> Ok("MouseX2")
      [] OTHER -> Err("UnknownKey")

\* Key::from_str without the lower-casing (mutant)
Key_from_str_cased(s) == Key_match(trim(s))

\* impl FromStr for Key
Key_from_str(s) == Key_match(to_lowercase(trim(s)))

\* Hotkey::new failing when either field is empty (mutant)
Hotkey_new_either(modifiers, key) ==
    IF modifiers = empty \/ key = None THEN Err("EmptyHotkey")
    ELSE Ok(Hotkey(modifiers, key))

\* Hotkey::new
Hotkey_new(modifiers, key) ==
    IF modifiers = empty /\ key = None THEN Err("EmptyHotkey")
    ELSE Ok(Hotkey(modifiers, key))

\* the body of the loop of Hotkey::from_str where a second key replaces
\* the first (mutant)
from_str_part_last_key(acc, part) ==
    IF ~acc.ok \/ part = << >> THEN acc
    ELSE IF parse_single(part) # NoModifier
         THEN Ok(Hotkey(acc.value.modifiers \cup parse_single(part)[1],
                        acc.value.key))
         ELSE LET key == Key_from_str(part)
              IN  IF key.ok THEN Ok(Hotkey(acc.value.modifiers, key.value))
                  ELSE key

\* the body of the loop of Hotkey::from_str, for one part: acc is Ok with
\* the modifiers and the key gathered so far, or the Err returned so far
from_str_part(acc, part) ==
    IF ~acc.ok \/ part = << >> THEN acc
    ELSE IF parse_single(part) # NoModifier
         THEN Ok(Hotkey(acc.value.modifiers \cup parse_single(part)[1],
                        acc.value.key))
         ELSE IF acc.value.key # None THEN Err("InvalidHotkeyFormat")
              ELSE LET key == Key_from_str(part)
                   IN  IF key.ok THEN Ok(Hotkey(acc.value.modifiers, key.value))
                       ELSE key

\* the loop of Hotkey::from_str over the parts
RECURSIVE from_str_parts(_, _)
from_str_parts(acc, parts) ==
    IF parts = << >> THEN acc
    ELSE from_str_parts(from_str_part(acc, trim(Head(parts))), Tail(parts))

\* impl FromStr for Hotkey
Hotkey_from_str(s) ==
    IF trim(s) = << >> THEN Err("EmptyHotkey")
    ELSE LET gathered == from_str_parts(Ok(Hotkey(empty, None)), split(trim(s)))
         IN  IF gathered.ok
             THEN Hotkey_new(gathered.value.modifiers, gathered.value.key)
             ELSE gathered

\* the tokens the parsed texts are made of: two modifier names, two key
\* names, a modifier name with white space around it, an unknown word and
\* the empty token
ParseTokens ==
    { <<"C", "m", "d">>, <<"s", "h", "i", "f", "t">>, <<"K">>, <<"f", "1">>,
      <<" ", "A", "l", "t", " ">>, <<"z", "z">>, << >> }

\* the token sequences of up to MaxTokens tokens
TokenSeqs == UNION { [1..n -> ParseTokens] : n \in 0..MaxTokens }

\* the tokens joined by '+'
RECURSIVE join(_)
join(tokens) ==
    IF tokens = << >> THEN << >>
    ELSE IF Len(tokens) = 1 THEN tokens[1]
    ELSE tokens[1] \o <<"+">> \o join(Tail(tokens))

\* impl Display for Modifiers: the names of the bits that are set, in the
\* order Ctrl, Opt, Shift, Cmd, Fn, joined by '+'
Modifiers_fmt(modifiers) ==
    LET names == << [bit |-> CTRL, name |-> <<"C", "t", "r", "l">>],
                    [bit |-> OPT, name |-> <<"O", "p", "t">>],
                    [bit |-> SHIFT, name |-> <<"S", "h", "i", "f", "t">>],
                    [bit |-> CMD, name |-> <<"C", "m", "d">>],
                    [bit |-> FN, name |-> <<"F", "n">>] >>
        contained(n) == n.bit \in modifiers
        parts == SelectSeq(names, contained)
    IN  join([i \in DOMAIN parts |-> parts[i].name])

\* impl Display for Hotkey
Hotkey_fmt(hotkey) ==
    IF hotkey.modifiers = empty
    THEN IF hotkey.key # None
         THEN Key_fmt(hotkey.key)
         ELSE <<"(", "n", "o", "n", "e", ")">>
    ELSE IF hotkey.key # None
         THEN Modifiers_fmt(hotkey.modifiers) \o <<"+">> \o Key_fmt(hotkey.key)
         ELSE Modifiers_fmt(hotkey.modifiers)

\* the calls of Hotkey::new, over every modifier set and every Option<Key>
HotkeyNewCalls ==
    { [fn |-> "Hotkey_new", modifiers |-> m, key |-> k, done |-> FALSE,
       result |-> Err("Pending")] : m \in AllModifiers, k \in {None} \cup Keys }

\* the calls of to_string on a key, whose text is then parsed
KeyFmtCalls ==
    { [fn |-> "Key_fmt", key |-> k, text |-> << >>, done |-> FALSE,
       result |-> Err("Pending")] : k \in Keys }

\* the calls of str::parse::<Hotkey> on the joined tokens
HotkeyFromStrCalls ==
    { [fn |-> "Hotkey_from_str", tokens |-> t, text |-> join(t),
       done |-> FALSE, result |-> Err("Pending")] : t \in TokenSeqs }

\* the calls of to_string on a hotkey Hotkey::new returns, whose text is
\* then parsed: every modifier set with every Option<Key> but (empty, None)
HotkeyFmtCalls ==
    { [fn |-> "Hotkey_fmt", hotkey |-> Hotkey_new(p[1], p[2]).value, text |-> << >>,
       formatted |-> FALSE, done |-> FALSE, result |-> Err("Pending")] :
          p \in { q \in AllModifiers \X ({None} \cup Keys) : Hotkey_new(q[1], q[2]).ok } }

InitTypes ==
    /\ HotkeyManager_new
    /\ \/ call \in HotkeyNewCalls
       \/ call \in KeyFmtCalls
       \/ call \in HotkeyFromStrCalls
       \/ call \in HotkeyFmtCalls
    /\ Unlocked
    /\ observing = {}
    /\ native = NoNative
    /\ NoTrace

\* Hotkey::new runs
HotkeyNew ==
    /\ call.fn = "Hotkey_new"
    /\ ~call.done
    /\ call' = [call EXCEPT !.done = TRUE,
                            !.result = Hotkey_new(call.modifiers, call.key)]
    /\ UNCHANGED <<system, trace, pc, holding>>

\* format!("{}", key) runs; its text is what Key::from_str is then called on
KeyFmt ==
    /\ call.fn = "Key_fmt"
    /\ call' = [call EXCEPT !.fn = "Key_from_str", !.text = Key_fmt(call.key)]
    /\ UNCHANGED <<system, trace, pc, holding>>

\* Key::from_str runs on the text
KeyFromStr ==
    /\ call.fn = "Key_from_str"
    /\ ~call.done
    /\ call' = [call EXCEPT !.done = TRUE, !.result = Key_from_str(call.text)]
    /\ UNCHANGED <<system, trace, pc, holding>>

\* Hotkey::from_str runs on the text
HotkeyFromStr ==
    /\ call.fn = "Hotkey_from_str"
    /\ ~call.done
    /\ call' = [call EXCEPT !.done = TRUE,
                            !.result = Hotkey_from_str(call.text)]
    /\ UNCHANGED <<system, trace, pc, holding>>

\* format!("{}", hotkey) runs
HotkeyFmt ==
    /\ call.fn = "Hotkey_fmt"
    /\ ~call.formatted
    /\ call' = [call EXCEPT !.formatted = TRUE, !.text = Hotkey_fmt(call.hotkey)]
    /\ UNCHANGED <<system, trace, pc, holding>>

\* str::parse::<Hotkey> runs on the text format! wrote
HotkeyParse ==
    /\ call.fn = "Hotkey_fmt"
    /\ call.formatted
    /\ ~call.done
    /\ call' = [call EXCEPT !.done = TRUE,
                            !.result = Hotkey_from_str(call.text)]
    /\ UNCHANGED <<system, trace, pc, holding>>

NextTypes ==
    \/ HotkeyNew
    \/ KeyFmt
    \/ KeyFromStr
    \/ HotkeyFromStr
    \/ HotkeyFmt
    \/ HotkeyParse

SpecTypes == InitTypes /\ [][NextTypes]_vars

\* ------------------------------------------------------------ properties
\* C1: the HotkeyEvents sent for one id alternate Pressed, Released, ...,
\* starting with Pressed: every event a turn of the event loop sends differs
\* in state from the one sent before for its id (an id nothing was sent for
\* counts as Released, so its first event is Pressed), and one turn sends at
\* most one event per id.
C1_Alternation ==
    [][ last'.op = "process_event" =>
          \A i \in DOMAIN last'.results :
             LET e == last'.results[i] IN
             /\ e.state # last_state[e.id]
             /\ \A j \in DOMAIN last'.results : j # i => last'.results[j].id # e.id
      ]_vars

\* an id that has been sent Pressed and then Released
C1_Witness ==
    /\ last.op = "process_event"
    /\ \E i \in DOMAIN last.results : last.results[i].state = Released

\* C2: a key-down event with key Some(k) sends Pressed for exactly the
\* registered ids that are not pressed and whose hotkey equals
\* (event.modifiers, Some(k)), and presses exactly those.
C2_PressRule ==
    [][ (last'.op = "process_event" /\ last'.event.is_key_down
            /\ last'.event.key # None) =>
          LET fired == { id \in DOMAIN hotkeys :
                           /\ id \notin pressed_hotkeys
                           /\ hotkeys[id] = Hotkey(last'.event.modifiers,
                                                   last'.event.key) }
          IN /\ { last'.results[i] : i \in DOMAIN last'.results }
                  = { HotkeyEvent(id, Pressed) : id \in fired }
             /\ Len(last'.results) = Cardinality(fired)
             /\ pressed_hotkeys' = pressed_hotkeys \cup fired
      ]_vars

\* two hotkeys on K, (Cmd,K) and (Shift,K), are registered and down({Cmd},K)
\* fired only (Cmd,K)
C2_Witness ==
    /\ last.op = "process_event"
    /\ last.event = KeyEvent({CMD}, "K", TRUE, NoModifier)
    /\ \E a, b \in DOMAIN hotkeys :
         /\ hotkeys[a] = Hotkey({CMD}, "K")
         /\ hotkeys[b] = Hotkey({SHIFT}, "K")
         /\ last.results = <<HotkeyEvent(a, Pressed)>>
         /\ b \notin pressed_hotkeys

\* C3: a down event whose (modifiers, key) equal a registered hotkey that
\* is already pressed sends nothing and leaves the pressed set unchanged.
C3_RepeatSuppressed ==
    [][ (last'.op = "process_event" /\ last'.event.is_key_down
            /\ \E id \in DOMAIN hotkeys :
                  /\ id \in pressed_hotkeys
                  /\ hotkeys[id] = Hotkey(last'.event.modifiers, last'.event.key)) =>
          /\ last'.results = << >>
          /\ pressed_hotkeys' = pressed_hotkeys
      ]_vars

\* a repeated down event for a pressed hotkey has been processed
C3_Witness ==
    /\ last.op = "process_event"
    /\ last.event.is_key_down
    /\ last.results = << >>
    /\ \E id \in DOMAIN hotkeys :
         /\ id \in pressed_hotkeys
         /\ last_state[id] = Pressed
         /\ hotkeys[id] = Hotkey(last.event.modifiers, last.event.key)

\* C4: a key-up event with key Some(k) releases every pressed registered
\* hotkey whose key is Some(k), whatever modifiers the event carries: the
\* id, whose last event was Pressed, gets exactly one event, a Released, and
\* is no longer in the pressed set.
C4_KeyUpReleases ==
    [][ (last'.op = "process_event" /\ ~last'.event.is_key_down
            /\ last'.event.key # None) =>
          \A id \in DOMAIN hotkeys :
             (id \in pressed_hotkeys /\ hotkeys[id].key = last'.event.key) =>
                /\ last_state[id] = Pressed
                /\ Cardinality({ i \in DOMAIN last'.results :
                                   last'.results[i].id = id }) = 1
                /\ \E i \in DOMAIN last'.results :
                      last'.results[i] = HotkeyEvent(id, Released)
                /\ last_state'[id] = Released
                /\ id \notin pressed_hotkeys'
      ]_vars

\* a key-up carrying other modifiers than the hotkey's has released it
C4_Witness ==
    /\ last.op = "process_event"
    /\ ~last.event.is_key_down
    /\ last.event.key = "K"
    /\ \E id \in DOMAIN hotkeys :
         /\ hotkeys[id].key = "K"
         /\ hotkeys[id].modifiers # last.event.modifiers
         /\ last.results = <<HotkeyEvent(id, Released)>>
         /\ id \notin pressed_hotkeys

C6_ModifierOnly ==
    [][ (last'.op = "process_event" /\ last'.event.key = None) =>
          \A id \in DOMAIN hotkeys :
             hotkeys[id].key = None =>
               /\ (last'.event.is_key_down
                     /\ hotkeys[id].modifiers = last'.event.modifiers
                     /\ id \notin pressed_hotkeys) =>
                        /\ id \in pressed_hotkeys'
                        /\ \E i \in DOMAIN last'.results :
                              last'.results[i] = HotkeyEvent(id, Pressed)
               /\ (~last'.event.is_key_down
                     /\ id \in pressed_hotkeys
                     /\ last'.event.changed_modifier # NoModifier
                     /\ last'.event.changed_modifier[1] \subseteq hotkeys[id].modifiers) =>
                        /\ id \notin pressed_hotkeys'
                        /\ \E i \in DOMAIN last'.results :
                              last'.results[i] = HotkeyEvent(id, Released)
      ]_vars

\* (Cmd|Shift, None) was pressed and the drop to {Cmd} has released it
C6_Witness ==
    /\ last.op = "process_event"
    /\ last.event = KeyEvent({CMD}, None, FALSE, SomeModifier({SHIFT}))
    /\ \E id \in DOMAIN hotkeys :
         /\ hotkeys[id] = Hotkey({CMD, SHIFT}, None)
         /\ last.results = <<HotkeyEvent(id, Released)>>
         /\ last_state[id] = Released

\* C7 as stated: an event with key Some(k) of either direction releases
\* every pressed hotkey whose key is Some(k) and sends Released for it.
C7_ReleaseEitherDirection ==
    [][ (last'.op = "process_event" /\ last'.event.key # None) =>
          \A id \in DOMAIN hotkeys :
             (id \in pressed_hotkeys /\ hotkeys[id].key = last'.event.key) =>
                /\ id \notin pressed_hotkeys'
                /\ \E i \in DOMAIN last'.results :
                      last'.results[i] = HotkeyEvent(id, Released)
      ]_vars

\* C7 amended: only a key-up releases. On an event with key Some(k) the
\* Released events sent are, for a key-up, exactly those of the pressed
\* hotkeys whose key is Some(k), and for a key-down none at all: a key-down
\* delivered while a hotkey with that key is pressed leaves it pressed.
C7_ReleaseOnKeyUpOnly ==
    [][ (last'.op = "process_event" /\ last'.event.key # None) =>
          LET sharing == { id \in DOMAIN hotkeys :
                             /\ id \in pressed_hotkeys
                             /\ hotkeys[id].key = last'.event.key }
              released == { last'.results[i].id :
                              i \in { j \in DOMAIN last'.results :
                                        last'.results[j].state = Released } }
          IN IF last'.event.is_key_down
             THEN released = {} /\ pressed_hotkeys \subseteq pressed_hotkeys'
             ELSE released = sharing /\ pressed_hotkeys' = pressed_hotkeys \ sharing
      ]_vars

\* a key-down for K with other modifiers arrived while a hotkey on K was
\* pressed, and the hotkey is still pressed
C7_Witness ==
    /\ last.op = "process_event"
    /\ last.event.is_key_down
    /\ last.event.key = "K"
    /\ \E id \in DOMAIN hotkeys :
         /\ hotkeys[id].key = "K"
         /\ hotkeys[id].modifiers # last.event.modifiers
         /\ id \in pressed_hotkeys
         /\ \A i \in DOMAIN last.results : last.results[i].id # id

\* C8: register of a hotkey equal to one in the table fails with
\* HotkeyAlreadyRegistered and changes neither the table, the id counter,
\* the pressed set nor the Blocking Set.
C8_DuplicateRegister ==
    [][ (last'.op = "register"
            /\ \E id \in DOMAIN hotkeys : hotkeys[id] = last'.hotkey) =>
          /\ ~last'.ok
          /\ last'.err = "HotkeyAlreadyRegistered"
          /\ hotkeys' = hotkeys
          /\ next_id' = next_id
          /\ pressed_hotkeys' = pressed_hotkeys
          /\ blocking_hotkeys' = blocking_hotkeys
      ]_vars

\* the second register of a hotkey has failed: one entry, one id consumed
C8_Witness ==
    /\ last.op = "register"
    /\ ~last.ok
    /\ next_id = 1
    /\ DOMAIN hotkeys = {0}
    /\ hotkeys[0] = last.hotkey
    /\ blocking_hotkeys = {last.hotkey}

\* C9: unregister of an id that is not in the table fails with
\* HotkeyNotFound and changes neither the table, the pressed set nor the
\* Blocking Set.
C9_UnregisterUnknown ==
    [][ (last'.op = "unregister" /\ last'.id \notin DOMAIN hotkeys) =>
          /\ ~last'.ok
          /\ last'.err = "HotkeyNotFound"
          /\ hotkeys' = hotkeys
          /\ pressed_hotkeys' = pressed_hotkeys
          /\ blocking_hotkeys' = blocking_hotkeys
      ]_vars

\* an id that was issued and unregistered before has been refused while
\* another hotkey stays registered
C9_Witness ==
    /\ last.op = "unregister"
    /\ ~last.ok
    /\ last.id < next_id
    /\ DOMAIN hotkeys # {}
    /\ blocking_hotkeys = Range(hotkeys)

\* C10: the pressed set is a subset of the ids of the registration table.
C10_PressedSubsetOfTable == pressed_hotkeys \subseteq DOMAIN hotkeys

\* C11: a successful unregister(id) removes exactly the entry id from the
\* table and exactly its hotkey from the Blocking Set: get_hotkey(id) is
\* absent afterwards, get_hotkey of every other id and every other entry of
\* the Blocking Set are as before, and the id counter is unchanged.
C11_UnregisterFrame ==
    [][ (last'.op = "unregister" /\ last'.ok) =>
          /\ get_hotkey(hotkeys, last'.id) # NoHotkey
          /\ get_hotkey(hotkeys', last'.id) = NoHotkey
          /\ \A i \in 0..(MaxIds - 1) \ {last'.id} :
                get_hotkey(hotkeys', i) = get_hotkey(hotkeys, i)
          /\ hotkeys[last'.id] \in blocking_hotkeys
          /\ blocking_hotkeys' = blocking_hotkeys \ {hotkeys[last'.id]}
          /\ next_id' = next_id
      ]_vars

\* one of two registered hotkeys has been unregistered; the other one is
\* still in the table and in the Blocking Set
C11_Witness ==
    /\ last.op = "unregister"
    /\ last.ok
    /\ next_id = 2
    /\ \E i \in DOMAIN hotkeys :
         /\ i # last.id
         /\ blocking_hotkeys = {hotkeys[i]}

\* C12: every successful register returns an id greater than every id
\* returned before, whatever calls of register and unregister, failed ones
\* included, came between; the id is therefore in use by no entry and an id
\* freed by unregister is not handed out again.
C12_IdsIncrease ==
    [][ (last'.op = "register" /\ last'.ok) =>
          /\ \A i \in issued : last'.id > i
          /\ last'.id \notin DOMAIN hotkeys
          /\ issued' = issued \cup {last'.id}
      ]_vars

\* a register has succeeded after an id returned earlier was freed
C12_Witness ==
    /\ last.op = "register"
    /\ last.ok
    /\ \E i \in issued : i < last.id /\ i \notin DOMAIN hotkeys

\* C13: should_block(modifiers, key), and should_block_hotkey of the Windows
\* hook, return true iff the Blocking Set holds an entry whose modifiers and
\* key both equal the arguments (key None included); a listener without a
\* Blocking Set always gets false.
C13_ShouldBlockExact ==
    (call.fn \in {"should_block", "should_block_hotkey"} /\ call.done) =>
       call.result =
          (/\ call.blocking # NoBlocking
           /\ \E h \in call.blocking[1] :
                 h.modifiers = call.modifiers /\ h.key = call.key)

\* with only (Cmd, K) in the Blocking Set, should_block({Cmd,Shift}, K) has
\* returned false
C13_Witness ==
    /\ call.fn = "should_block"
    /\ call.done
    /\ call.blocking = SomeBlocking({Hotkey({CMD}, "K")})
    /\ call.modifiers = {CMD, SHIFT}
    /\ call.key = "K"
    /\ call.result = FALSE

\* C14: the answer the callback gave for the key-down of a non-modifier key
\* is the answer it gives for the key-up of that key: blocked if the press
\* was blocked, passed if the press was passed, whatever happened to the
\* modifiers and to the Blocking Set in between.
C14_DownDecisionReplayed ==
    [][ (/\ last'.op = "native"
         /\ last'.sent
         /\ key_events'[Len(key_events')].key # None
         /\ ~key_events'[Len(key_events')].is_key_down
         /\ down_block[key_events'[Len(key_events')].key] # "up") =>
          last'.block = (down_block[key_events'[Len(key_events')].key] = "blocked")
      ]_vars

\* C15: every native down notification that is turned into a canonical event
\* whose (modifiers, key) equal a registered hotkey - a keyboard key, a mouse
\* button or a modifier-only hotkey - is suppressed.
C15_RegisteredIsBlocked ==
    [][ (/\ last'.op = "native"
         /\ last'.sent
         /\ key_events'[Len(key_events')].is_key_down
         /\ Hotkey(key_events'[Len(key_events')].modifiers,
                   key_events'[Len(key_events')].key) \in Range(hotkeys)) =>
          last'.block
      ]_vars

\* C16: a registration change is in force for the native event that follows
\* it: a native event is suppressed iff its (modifiers, key) equal a hotkey
\* that is registered - register has returned and unregister has not - when
\* the event is delivered.
C16_ChangeTakesEffect ==
    [][ (last'.op = "native" /\ last'.sent) =>
          (last'.block <=>
             Hotkey(key_events'[Len(key_events')].modifiers,
                    key_events'[Len(key_events')].key) \in Range(hotkeys))
      ]_vars

\* C17: no thread holds two mutexes at once: neither the native callback,
\* the worker nor a caller in register, unregister or a lookup locks a
\* second mutex while it holds one.
C17_NoNestedLocks == \A t \in Threads : Len(holding[t]) <= 1

\* C18: the worker processes the canonical events in the order the callback
\* sent them - the n-th event processed is the n-th event sent - and the
\* caller receives the HotkeyEvents in the order of their causes: no
\* HotkeyEvent is received after one that a later canonical event caused.
C18_OrderKept ==
    [][ /\ last'.op = "process_event" => done_seq' = done_seq + 1
        /\ last'.op = "recv" => recv_seq' >= recv_seq
      ]_vars

\* a HotkeyEvent has been received while a HotkeyEvent of a later cause
\* waits behind it and two more canonical events wait for the worker
C18_Witness ==
    /\ last.op = "recv"
    /\ \E i \in DOMAIN hotkey_events : hotkey_events[i].cause > last.cause
    /\ Len(key_events) = 2

\* C19: once the running flag of the manager is cleared, the worker leaves
\* its loop and the join in drop returns, whether canonical events keep
\* arriving or none arrives; and once the worker is gone no canonical event
\* is taken from the channel and no HotkeyEvent is sent any more (the pressed
\* set and the last state sent for each id stay as they are).
C19_ShutdownTerminates ==
    /\ (~running) ~> (worker = "exited" /\ joined)
    /\ [][ worker = "exited" =>
             UNCHANGED <<key_events, pressed_hotkeys, last_state, hotkey_events>>
         ]_vars

\* the join has returned and the worker's last turn before it left the loop
\* processed a canonical event
C19_Witness ==
    /\ joined
    /\ worker = "exited"
    /\ last.op = "process_event"

\* C20: on every backend, when the permission is missing or the native tap,
\* hook or grab cannot be installed, construction returns an error (and so
\* produces no listener and no manager).
C20_InitFailureIsFatal ==
    (call.fn \in {"macos_spawn", "windows_spawn", "linux_spawn"} /\ call.done) =>
       LET installed ==
             CASE call.fn = "macos_spawn" ->
                    call.accessibility /\ call.tap /\ call.source /\ call.run_loop
               [] call.fn = "windows_spawn" -> call.kb_hook /\ call.mouse_hook
               [] call.fn = "linux_spawn" -> call.grab
       IN ~installed => call.result # "Ok"

\* C21: Hotkey::new(modifiers, key) fails, with EmptyHotkey, exactly when
\* modifiers is empty and key is None; with every other of the 32 modifier
\* sets and Option<Key> values it returns a Hotkey holding exactly these two
\* fields. So no Hotkey returned by new or by parsing a text has both fields
\* empty.
C21_NewFailsIffEmpty ==
    /\ (call.fn = "Hotkey_new" /\ call.done) =>
          /\ ~call.result.ok <=> (call.modifiers = empty /\ call.key = None)
          /\ ~call.result.ok => call.result.err = "EmptyHotkey"
          /\ call.result.ok =>
                call.result.value = [modifiers |-> call.modifiers,
                                     key |-> call.key]
    /\ (call.fn \in {"Hotkey_new", "Hotkey_from_str"} /\ call.done
          /\ call.result.ok) =>
          ~(call.result.value.modifiers = empty /\ call.result.value.key = None)

\* Hotkey::new has returned a hotkey of three modifiers and no key
C21_Witness ==
    /\ call.fn = "Hotkey_new"
    /\ call.done
    /\ call.result.ok
    /\ call.modifiers = {CMD, OPT, FN}
    /\ call.key = None

\* C22: for every variant k of Key, Key::from_str on the text Display writes
\* for k returns Ok(k).
C22_KeyRoundTrip ==
    (call.fn = "Key_from_str" /\ call.done) => call.result = Ok(call.key)

\* the text "Keypad+" of Key::KeypadPlus has been parsed
C22_Witness ==
    /\ call.fn = "Key_from_str"
    /\ call.done
    /\ call.key = "KeypadPlus"
    /\ call.text = <<"K", "e", "y", "p", "a", "d", "+">>
    /\ call.result.ok

\* C23: parsing a text of tokens joined by '+': with the tokens in any other
\* order the parse returns the same Hotkey, or fails as well; it fails when
\* more than one token is a key, when a token is neither a modifier name nor
\* a key name, and when no token is a modifier or a key (the empty text
\* included).
C23_ParseTokens ==
    (call.fn = "Hotkey_from_str" /\ call.done) =>
       LET tokens == call.tokens
           named == { i \in 1..Len(tokens) : trim(tokens[i]) # << >> }
           modifier_tokens ==
               { i \in named : parse_single(trim(tokens[i])) # NoModifier }
           key_tokens ==
               { i \in named \ modifier_tokens : Key_from_str(tokens[i]).ok }
           unrecognized == named \ (modifier_tokens \cup key_tokens)
       IN  /\ \A p \in Orderings(1..Len(tokens)) :
                 LET other == Hotkey_from_str(
                                  join([i \in 1..Len(tokens) |-> tokens[p[i]]]))
                 IN  /\ other.ok = call.result.ok
                     /\ call.result.ok => other.value = call.result.value
           /\ Cardinality(key_tokens) > 1 => ~call.result.ok
           /\ unrecognized # {} => ~call.result.ok
           /\ (modifier_tokens = {} /\ key_tokens = {}) => ~call.result.ok

\* "K+Cmd+shift" has been parsed to the hotkey Cmd+Shift+K
C23_Witness ==
    /\ call.fn = "Hotkey_from_str"
    /\ call.done
    /\ call.tokens = << <<"K">>, <<"C", "m", "d">>, <<"s", "h", "i", "f", "t">> >>
    /\ call.result = Ok(Hotkey({CMD, SHIFT}, "K"))

\* C24: a transition of a modifier key in the normalizer (Linux callback,
\* Windows keyboard hook): the snapshot becomes the old one with the bit of
\* the key set on a key-down and cleared on a key-up; a canonical event is
\* sent exactly when that changes the snapshot (an auto-repeat key-down sends
\* nothing); the event has key None, the new snapshot as modifiers, and
\* is_key_down true exactly when the bit was gained.
C24_ModifierTransition ==
    [][LET transition(bit, down) ==
               LET after == IF down THEN current_modifiers \cup bit
                            ELSE current_modifiers \ bit
               IN  /\ current_modifiers' = after
                   /\ after = current_modifiers => key_events' = key_events
                   /\ after # current_modifiers =>
                        /\ Len(key_events') = Len(key_events) + 1
                        /\ SubSeq(key_events', 1, Len(key_events)) = key_events
                        /\ key_events'[Len(key_events')].key = None
                        /\ key_events'[Len(key_events')].modifiers = after
                        /\ key_events'[Len(key_events')].is_key_down
                             <=> after \ current_modifiers # {}
       IN  /\ \A rdev_key \in BackendRdevKeys :
                 rdev_key_to_modifier(rdev_key) # NoModifier =>
                    /\ KeyPress(rdev_key) =>
                          transition(rdev_key_to_modifier(rdev_key)[1], TRUE)
                    /\ KeyRelease(rdev_key) =>
                          transition(rdev_key_to_modifier(rdev_key)[1], FALSE)
           /\ \A vk_code \in BackendVkCodes, is_key_down \in BOOLEAN :
                 (vk_to_modifier(vk_code) # NoModifier
                    /\ KeyboardHook(vk_code, is_key_down)) =>
                    transition(vk_to_modifier(vk_code)[1], is_key_down)
      ]_vars

\* on Linux the key-down of Shift while Cmd is held has sent its event
C24_Witness ==
    /\ native.target_os = "linux"
    /\ last.op = "native"
    /\ last.sent
    /\ current_modifiers = {CMD, SHIFT}
    /\ key_events = <<KeyEvent({CMD, SHIFT}, None, TRUE, SomeModifier({SHIFT}))>>

\* C25: a native notification sends at most one canonical event. For a key
\* that is no modifier and that the backend maps to a key k (Linux callback,
\* Windows keyboard hook) it sends exactly one: key Some(k), is_key_down the
\* native direction, modifiers the current snapshot, changed_modifier None;
\* the snapshot stays as it is.
C25_KeyTransition ==
    [][LET native_step ==
               \/ \E rdev_key \in BackendRdevKeys :
                     KeyPress(rdev_key) \/ KeyRelease(rdev_key)
               \/ \E vk_code \in BackendVkCodes, is_key_down \in BOOLEAN :
                     KeyboardHook(vk_code, is_key_down)
               \/ \E msg \in BackendMessages : MouseHook(msg)
           transition(k, down) ==
               /\ current_modifiers' = current_modifiers
               /\ Len(key_events') = Len(key_events) + 1
               /\ SubSeq(key_events', 1, Len(key_events)) = key_events
               /\ key_events'[Len(key_events')].key = k
               /\ key_events'[Len(key_events')].is_key_down = down
               /\ key_events'[Len(key_events')].modifiers = current_modifiers
               /\ key_events'[Len(key_events')].changed_modifier = NoModifier
       IN  /\ native_step =>
                 \/ key_events' = key_events
                 \/ /\ Len(key_events') = Len(key_events) + 1
                    /\ SubSeq(key_events', 1, Len(key_events)) = key_events
           /\ \A rdev_key \in BackendRdevKeys :
                 (rdev_key_to_modifier(rdev_key) = NoModifier
                    /\ rdev_key_to_key(rdev_key) # None) =>
                    /\ KeyPress(rdev_key) =>
                          transition(rdev_key_to_key(rdev_key), TRUE)
                    /\ KeyRelease(rdev_key) =>
                          transition(rdev_key_to_key(rdev_key), FALSE)
           /\ \A vk_code \in BackendVkCodes, is_key_down \in BOOLEAN :
                 (vk_to_modifier(vk_code) = NoModifier
                    /\ vk_to_key(vk_code, FALSE) # None
                    /\ KeyboardHook(vk_code, is_key_down)) =>
                    transition(vk_to_key(vk_code, FALSE), is_key_down)
      ]_vars

\* on Windows the key-down of K while Win and Shift are held has sent its
\* event
C25_Witness ==
    /\ native.target_os = "windows"
    /\ last.op = "native"
    /\ last.sent
    /\ current_modifiers = {CMD, SHIFT}
    /\ key_events = <<KeyEvent({CMD, SHIFT}, "K", TRUE, NoModifier)>>

\* C26: in every canonical event a backend sends, changed_modifier is Some
\* exactly when key is None, and then it names one modifier: the one whose
\* bit differs between the snapshot before the event and the modifiers of
\* the event.
C26_ChangedModifierExact ==
    [][(Len(key_events') = Len(key_events) + 1) =>
          LET event == key_events'[Len(key_events')]
          IN  /\ event.changed_modifier # NoModifier <=> event.key = None
              /\ event.changed_modifier # NoModifier =>
                    /\ Cardinality(event.changed_modifier[1]) = 1
                    /\ event.changed_modifier[1]
                         = (event.modifiers \ current_modifiers)
                              \cup (current_modifiers \ event.modifiers)
      ]_vars

\* C27: a Caps Lock tap, which reaches the macOS tap as FlagsChanged, sends
\* exactly one canonical event: key Some(CapsLock), changed_modifier None,
\* is_key_down the Caps Lock flag the OS reports with it; no event with key
\* None. The events of successive taps alternate between down and up.
C27_LockKey ==
    [][MacCapsLock =>
          /\ Len(key_events') = Len(key_events) + 1
          /\ SubSeq(key_events', 1, Len(key_events)) = key_events
          /\ key_events'[Len(key_events')].key = "CapsLock"
          /\ key_events'[Len(key_events')].changed_modifier = NoModifier
          /\ key_events'[Len(key_events')].is_key_down = native'.caps
          /\ native.lock_event = "down" => ~key_events'[Len(key_events')].is_key_down
          /\ native.lock_event = "up" => key_events'[Len(key_events')].is_key_down
      ]_vars

\* the second of two taps has sent its key-up while Cmd is held
C27_Witness ==
    /\ native.target_os = "macos"
    /\ native.lock_event = "up"
    /\ ~native.caps
    /\ last.op = "native"
    /\ key_events = <<KeyEvent({CMD}, "CapsLock", FALSE, NoModifier)>>

\* C28: a Pressed modifier-only hotkey (M, None) is released by an event
\* with key None only if M is no longer a subset of the modifiers of the
\* event: while all of M is held, the press and the release of a further
\* modifier leave it Pressed and send nothing for its id.
C28_ModifierOnlyKept ==
    [][(last'.op = "process_event" /\ key_events' # key_events
          /\ last'.event.key = None) =>
          \A id \in DOMAIN hotkeys \cap pressed_hotkeys :
             (hotkeys[id].key = None
                /\ hotkeys[id].modifiers \subseteq last'.event.modifiers) =>
                /\ id \in pressed_hotkeys'
                /\ \A i \in DOMAIN last'.results : last'.results[i].id # id
      ]_vars

\* C29: a Pressed key-based hotkey (M, Some(k)) is not released by an event
\* with key None whose modifiers contain all of M: the press of a further
\* modifier and the release of a modifier outside M leave it Pressed and
\* send nothing for its id. A key-only hotkey (M empty) is released by no
\* event with key None.
C29_KeyBasedKept ==
    [][(last'.op = "process_event" /\ key_events' # key_events
          /\ last'.event.key = None) =>
          \A id \in DOMAIN hotkeys \cap pressed_hotkeys :
             (hotkeys[id].key # None
                /\ (hotkeys[id].modifiers \subseteq last'.event.modifiers
                      \/ hotkeys[id].modifiers = empty)) =>
                /\ id \in pressed_hotkeys'
                /\ \A i \in DOMAIN last'.results : last'.results[i].id # id
      ]_vars

\* Cmd+K is Pressed, and the worker has processed the release of Shift,
\* which was held on top of Cmd
C29_Witness ==
    /\ last.op = "process_event"
    /\ last.event = KeyEvent({CMD}, None, FALSE, SomeModifier({SHIFT}))
    /\ last.results = << >>
    /\ \E id \in pressed_hotkeys \cap DOMAIN hotkeys : hotkeys[id] = Hotkey({CMD}, "K")

\* C30: on Linux, once the running flag of the listener is cleared, the grab
\* callback, which stays installed, passes every native event on, sends no
\* canonical event and leaves the modifier snapshot as it is, whatever the
\* Blocking Set holds.
C30_StoppedCallbackIdle ==
    [][(/\ ~listener_running
        /\ \E rdev_key \in ShutdownKeys :
              \/ KeyPress(rdev_key)
              \/ KeyRelease(rdev_key)
              \/ \E pressed \in BOOLEAN : GrabStopped(rdev_key, pressed)) =>
          /\ ~last'.block
          /\ ~last'.sent
          /\ key_events' = key_events
          /\ current_modifiers' = current_modifiers
      ]_vars

\* the manager is dropped with Cmd+K in the Blocking Set and Cmd held, and
\* the callback has been called after that
C30_Witness ==
    /\ ~listener_running
    /\ joined
    /\ last = [op |-> "native", sent |-> FALSE, block |-> FALSE,
               processed |-> FALSE]
    /\ blocking_hotkeys = {Hotkey({CMD}, "K")}
    /\ current_modifiers = {CMD}

\* C31: whenever no register or unregister call is in progress, the Blocking
\* Set is exactly the set of hotkey definitions in the registration table, and
\* no definition is in the table under two ids.
C31_BlockingIsTable ==
    (pc["caller"].at = "idle" \/ pc["caller"].fn \in {"get_hotkey", "hotkey_count"}) =>
       /\ blocking_hotkeys = Range(hotkeys)
       /\ \A i, j \in DOMAIN hotkeys : hotkeys[i] = hotkeys[j] => i = j

\* both ids have been handed out, one of the two hotkeys has been taken out
\* again, and the caller is between two calls
C31_Witness ==
    /\ pc["caller"].at = "idle"
    /\ next_id = MaxIds
    /\ Cardinality(DOMAIN hotkeys) = 1
    /\ blocking_hotkeys # {}

\* C32: no deadlock among the callback, the worker and the caller. No set of
\* threads waits in a circle, each for a mutex that a thread of the set holds;
\* every thread takes its mutexes in one order (the state or the listener
\* mutex first, the mutex of the Blocking Set last, and nothing after it); and
\* the worker holds no mutex while it waits in recv_timeout.
C32_DeadlockFree ==
    LET wanted(t) == CASE pc[t].at = "lock_state" -> "state"
                       [] pc[t].at = "lock_listener" -> "listener"
                       [] pc[t].at = "lock_blocking" -> "blocking"
                       [] OTHER -> None
        holds(t, mutex) == \E i \in DOMAIN holding[t] : holding[t][i] = mutex
        rank(mutex) == IF mutex = "blocking" THEN 1 ELSE 0
    IN  /\ ~\E S \in SUBSET Threads \ {{}} :
              \A t \in S : \E u \in S : wanted(t) # None /\ holds(u, wanted(t))
        /\ \A t \in Threads :
              /\ \A i, j \in DOMAIN holding[t] :
                    i < j => rank(holding[t][i]) < rank(holding[t][j])
              /\ wanted(t) # None =>
                    \A i \in DOMAIN holding[t] : rank(holding[t][i]) < rank(wanted(t))
        /\ pc["worker"].at = "recv" => holding["worker"] = << >>

\* register holds the state mutex and waits for the mutex of the Blocking
\* Set, which the callback holds inside should_block on top of the listener
\* mutex
C32_Witness ==
    /\ pc["caller"].at = "lock_blocking"
    /\ pc["caller"].fn = "register"
    /\ holding["caller"] = <<"state">>
    /\ pc["callback"].at = "blocking_locked"
    /\ holding["callback"] = <<"listener", "blocking">>

\* C33: for the key-down of a non-modifier key, the answer the callback gave
\* and what the worker finds when it processes the canonical event agree,
\* also when register or unregister ran in between: the notification was
\* suppressed iff a registered hotkey equals the event's (modifiers, key), and
\* no Pressed is sent for a notification that was passed through. Stated for
\* the event that was sent last, whose answer is the recorded one of its key.
C33_BlockAgreesWithMatch ==
    [][(/\ last'.op = "process_event"
        /\ key_events' # key_events
        /\ key_events' = << >>
        /\ last'.event.is_key_down
        /\ last'.event.key # None
        /\ down_block[last'.event.key] # "up") =>
          /\ (down_block[last'.event.key] = "blocked") <=>
                already_registered(hotkeys,
                                   Hotkey(last'.event.modifiers, last'.event.key))
          /\ down_block[last'.event.key] = "passed" =>
                \A i \in DOMAIN last'.results : last'.results[i].state # Pressed
      ]_vars

\* C34: the worker sends no HotkeyEvent for an id that has been unregistered,
\* whatever canonical event it processes: every id it sends is in the table
\* at that moment, and none is among the ids handed out and taken out again.
\* The worker processes an event only while no register or unregister holds
\* the state mutex, so it sees the table before or after a change, never in
\* between.
C34_NoEventAfterUnregister ==
    [][(pc["worker"].at = "state_locked" /\ pc'["worker"].at = "recv") =>
          /\ \A results \in process_event_results(hotkeys, pressed_hotkeys,
                                                   Head(key_events)) :
                \A i \in DOMAIN results :
                   /\ results[i].id \in DOMAIN hotkeys
                   /\ results[i].id \notin (0..(next_id - 1)) \ DOMAIN hotkeys
          /\ \A i \in DOMAIN holding["caller"] : holding["caller"][i] # "state"
          /\ hotkeys' = hotkeys
      ]_vars

\* a hotkey was unregistered while Pressed, unregister has returned, and the
\* worker is about to process a key-up event under the state mutex
C34_Witness ==
    /\ pc["worker"].at = "state_locked"
    /\ pc["caller"].at = "idle"
    /\ \E id \in pressed_hotkeys : id \notin DOMAIN hotkeys
    /\ ~Head(key_events).is_key_down
    /\ Head(key_events).key # None

\* C35: a hotkey unregistered while Pressed gets no Released: unregister
\* itself sends nothing, and from then on the last event sent for the id stays
\* Pressed, whatever key-up or modifier release the worker processes.
C35_NoReleasedAfterUnregister ==
    [][/\ \A id \in DOMAIN hotkeys :
             (last'.op = "unregister" /\ last'.ok /\ last'.id = id
                /\ id \notin DOMAIN hotkeys' /\ last_state[id] = Pressed) =>
                last_state'[id] = Pressed
       /\ \A id \in issued \ DOMAIN hotkeys :
             last_state[id] = Pressed =>
                /\ last_state'[id] = Pressed
                /\ (last'.op = "process_event" /\ key_events' # key_events) =>
                      \A i \in DOMAIN last'.results : last'.results[i].id # id
      ]_vars

\* a hotkey was unregistered while Pressed and the worker has since processed
\* the release of a modifier, with nothing sent
C35_Witness ==
    /\ \E id \in issued \ DOMAIN hotkeys : last_state[id] = Pressed
    /\ last.op = "process_event"
    /\ ~last.event.is_key_down
    /\ last.event.key = None
    /\ last.results = << >>
    /\ current_modifiers = empty

\* C36: with a left and a right key per modifier, the snapshot holds modifier
\* m iff at least one key of class m is down, and a modifier release is sent
\* only when no key of its class is down any more: with Left-Shift held, the
\* press and release of Right-Shift leave Shift in the snapshot and send no
\* release event.
C36_SnapshotIsHeld ==
    LET class(k) == IF native.target_os = "linux"
                    THEN rdev_key_to_modifier(k)
                    ELSE vk_to_modifier(k)
    IN  /\ \A m \in {CMD, SHIFT, CTRL} :
              m \in current_modifiers <=>
                 \E k \in held_keys : class(k) = SomeModifier({m})
        /\ (/\ last.op = "native"
            /\ last.sent
            /\ key_events # << >>
            /\ key_events[Len(key_events)].key = None
            /\ ~key_events[Len(key_events)].is_key_down) =>
              ~\E k \in held_keys :
                  class(k) = key_events[Len(key_events)].changed_modifier

\* C37: the Linux callback and the Windows keyboard hook are equivalent on
\* keyboard input: from the same snapshot and Blocking Set, a key transition
\* handled by the Linux callback gives the snapshot, the canonical event and
\* the block answer that the Windows hook gives for the same key, so every
\* step of the one is a step of the other; in particular the release of a
\* modifier is passed through by both.
C37_LinuxIsWindows ==
    [][LET vk_code(rdev_key) == CASE rdev_key = "MetaLeft" -> VK_LWIN
                                  [] rdev_key = "ShiftLeft" -> VK_LSHIFT
                                  [] rdev_key = "KeyK" -> VK_K
       IN  \A rdev_key \in ExtraKeys :
              /\ KeyPress(rdev_key) => KeyboardHook(vk_code(rdev_key), TRUE)
              /\ KeyRelease(rdev_key) => KeyboardHook(vk_code(rdev_key), FALSE)
      ]_vars

\* C38: no hotkey stays stuck. Once every non-modifier key that went down has
\* gone up, the snapshot of the modifiers is empty and the worker has
\* processed every canonical event, no registered hotkey is Pressed.
C38_NothingStuck ==
    LET class(k) == IF native.target_os = "linux"
                    THEN rdev_key_to_modifier(k)
                    ELSE vk_to_modifier(k)
    IN  (/\ current_modifiers = empty
         /\ \A k \in held_keys : class(k) # NoModifier
         /\ key_events = << >>) =>
           pressed_hotkeys \cap DOMAIN hotkeys = {}

\* Shift+K was Pressed and has been released; every key is up again and the
\* channel is empty
C38_Witness ==
    /\ current_modifiers = empty
    /\ held_keys = {}
    /\ key_events = << >>
    /\ \E id \in DOMAIN hotkeys :
          hotkeys[id] = Hotkey({SHIFT}, "K") /\ last_state[id] = Released
                                            /\ id \in issued
    /\ last.op = "process_event"
    /\ last.results # << >>

\* C39: the results of one canonical event. A down event sends at most one
\* HotkeyEvent, a Pressed; an up event sends only Released, possibly for
\* several ids, and no id twice.
C39_ResultsPerEvent ==
    [][(last'.op = "process_event" /\ key_events' # key_events) =>
          /\ last'.event.is_key_down =>
                /\ Len(last'.results) <= 1
                /\ \A i \in DOMAIN last'.results : last'.results[i].state = Pressed
          /\ ~last'.event.is_key_down =>
                \A i \in DOMAIN last'.results : last'.results[i].state = Released
          /\ \A i, j \in DOMAIN last'.results :
                last'.results[i].id = last'.results[j].id => i = j
      ]_vars

\* the release of Cmd has released two hotkeys at once
C39_Witness ==
    /\ last.op = "process_event"
    /\ ~last.event.is_key_down
    /\ Len(last.results) = 2
    /\ last.results[1].id # last.results[2].id

\* C40: for every valid Hotkey h - a non-empty modifier set with or without
\* a key, or a key alone, over every variant of Key - parsing the text
\* Display writes for h returns Ok(h).
C40_HotkeyRoundTrip ==
    (call.fn = "Hotkey_fmt" /\ call.done) => call.result = Ok(call.hotkey)

====
